---- MODULE Spec2Model ----
(***************************************************************************)
(* Model of pyquafu's QuantumCircuit (src/quafu/quantum_circuit.py): the   *)
(* container (num, gates, measures), the layering scheduler                *)
(* layered_circuit, and the OpenQASM codec to_openqasm / from_openqasm.    *)
(*                                                                         *)
(* A gate object is a record [name, cls, pos, paras]; pos is always a      *)
(* sequence (a one-element sequence for a single-qubit gate).  A gate      *)
(* reference in the layered layout is the 1-based index of the gate in     *)
(* self.gates (object identity), None is 0.                                *)
(***************************************************************************)
EXTENDS Integers, Sequences, FiniteSets, TLC

VARIABLES num, gates, measures, shots, tomo, openqasm, circuit, used_qubits,
          global_valid, stdout, pc, input,
          raised, cgate, matrix, inputs, measure_basis, exec_res, plot

vars == <<num, gates, measures, shots, tomo, openqasm, circuit, used_qubits,
          global_valid, stdout, pc, input,
          raised, cgate, matrix, inputs, measure_basis, exec_res, plot>>

\* the objects of the gate algebra and the locals of submit_task
algebra == <<cgate, matrix>>
task == <<inputs, measure_basis, exec_res>>

\* no call has raised, no gate object or matrix is under construction, no
\* submit_task is running and no plot manager was made
Idle ==
  /\ raised = ""
  /\ cgate = <<>>
  /\ matrix = <<>>
  /\ inputs = <<>>
  /\ measure_basis = <<>>
  /\ exec_res = <<>>
  /\ plot = <<>>

\* ---------------------------------------------------------------- bounds
MaxQubits == 3
MaxGates == 3
MaxBarrier == 2
CodecQubits == 2
CodecMaxGates == 2
MaxMeasured == 2
ImportQubits == 2
MaxStmts == 3
MaxAxes == 3
CallQubits == 2
MaxPos == 3
MaxBuilt == 2
MaxObs == 2
MaxPlotted == 2

None == 0

\* ------------------------------------------------------- small utilities
Range(s) == {s[i] : i \in 1..Len(s)}

SetMax(S) == CHOOSE a \in S : \A b \in S : b <= a
SetMin(S) == CHOOSE a \in S : \A b \in S : a <= b

\* python: e in list
InList(e, s) == \E i \in 1..Len(s) : s[i] = e

\* python: list.insert(pos, e) for 0 <= pos <= len(list)
InsertAt(s, pos, e) == SubSeq(s, 1, pos) \o <<e>> \o SubSeq(s, pos + 1, Len(s))

\* python: [e] * k
RECURSIVE Repeat(_, _)
Repeat(e, k) == IF k <= 0 THEN <<>> ELSE <<e>> \o Repeat(e, k - 1)

\* all sequences over S with pairwise distinct entries and length in lo..hi
DistinctSeqs(S, lo, hi) ==
  UNION {{s \in [1..k -> S] : \A i, j \in 1..k : i # j => s[i] # s[j]} : k \in lo..hi}

\* numpy.sort of a list without repetitions
RECURSIVE SortedSeq(_)
SortedSeq(S) == IF S = {} THEN <<>>
                ELSE LET m == SetMin(S) IN <<m>> \o SortedSeq(S \ {m})

\* the ascending lists of lo..hi distinct members of S
AscendingSeqs(S, lo, hi) == {SortedSeq(T) : T \in {U \in SUBSET S : Cardinality(U) \in lo..hi}}

\* ------------------------------------------------------------ gate model
SingleQubitClasses == {"FixedSingleQubitGate", "ParaSingleQubitGate"}
TwoQubitClasses == {"FixedTwoQubitGate", "ParaTwoQubitGate"}

MkGate(name, cls, pos, paras) == [name |-> name, cls |-> cls, pos |-> pos, paras |-> paras]

HGate(pos) == MkGate("H", "FixedSingleQubitGate", <<pos>>, 0)
XGate(pos) == MkGate("X", "FixedSingleQubitGate", <<pos>>, 0)
YGate(pos) == MkGate("Y", "FixedSingleQubitGate", <<pos>>, 0)
ZGate(pos) == MkGate("Z", "FixedSingleQubitGate", <<pos>>, 0)
RXGate(pos, para) == MkGate("RX", "ParaSingleQubitGate", <<pos>>, para)
RYGate(pos, para) == MkGate("RY", "ParaSingleQubitGate", <<pos>>, para)
RZGate(pos, para) == MkGate("RZ", "ParaSingleQubitGate", <<pos>>, para)
CXGate(pos) == MkGate("CX", "FixedTwoQubitGate", pos, 0)
CYGate(pos) == MkGate("CY", "FixedTwoQubitGate", pos, 0)
CZGate(pos) == MkGate("CZ", "FixedTwoQubitGate", pos, 0)
SwapGate(pos) == MkGate("SWAP", "FixedTwoQubitGate", pos, 0)
Barrier(pos) == MkGate("barrier", "Barrier", pos, 0)

IsSingleQubitGate(g) == g.cls \in SingleQubitClasses
IsTwoQubitGate(g) == g.cls \in TwoQubitClasses
IsBarrier(g) == g.cls = "Barrier"

\* ------------------------------------------------ the measurement map
\* A python dict in insertion order: a sequence of <<key, value>> pairs with
\* pairwise distinct keys.
Keys(m) == [i \in 1..Len(m) |-> m[i][1]]
KeySet(m) == {m[i][1] : i \in 1..Len(m)}
HasKey(m, k) == \E i \in 1..Len(m) : m[i][1] = k
Lookup(m, k) == m[CHOOSE i \in 1..Len(m) : m[i][1] = k][2]

\* variant: an existing key keeps its first value
DictSet_KeepFirst(m, k, v) == IF HasKey(m, k) THEN m ELSE Append(m, <<k, v>>)

\* d[k] = v
DictSet(m, k, v) ==
  IF HasKey(m, k) THEN [i \in 1..Len(m) |-> IF m[i][1] = k THEN <<k, v>> ELSE m[i]]
  ELSE Append(m, <<k, v>>)

\* dict(zip(ks, vs))
RECURSIVE DictZipFrom(_, _, _, _)
DictZipFrom(ks, vs, i, acc) ==
  IF i > Len(ks) \/ i > Len(vs) THEN acc
  ELSE DictZipFrom(ks, vs, i + 1, DictSet(acc, ks[i], vs[i]))
DictZip(ks, vs) == DictZipFrom(ks, vs, 1, <<>>)

\* range(n) as a list
RangeList(n) == [i \in 1..n |-> i - 1]

DefaultMeasures(n) == DictZip(RangeList(n), RangeList(n))

\* --------------------------------------------------- layered_circuit
\* gateQlist is a function 0..num-1 -> list of cells.
AppendUsed(used, p) == IF InList(p, used) THEN used ELSE Append(used, p)

RECURSIVE AppendAllUsed(_, _, _)
AppendAllUsed(used, ps, i) ==
  IF i > Len(ps) THEN used ELSE AppendAllUsed(AppendUsed(used, ps[i]), ps, i + 1)

\* variant: the placeholders are inserted at the head of the wire
InsertNones_AtHead(row, pos, k) == Repeat(None, k) \o row

\* for i in range(k): row.insert(pos, None)
RECURSIVE InsertNones(_, _, _)
InsertNones(row, pos, k) ==
  IF k <= 0 THEN row ELSE InsertNones(InsertAt(row, pos, None), pos, k - 1)

\* variant: the missing cells are added after the cell just appended
JustifySpan_PadRight(gql, pos1, pos2) ==
  LET maxlayer == SetMax({Len(gql[j]) : j \in pos1..pos2})
  IN [q \in DOMAIN gql |->
        IF q \in pos1..pos2
        THEN gql[q] \o Repeat(None, maxlayer - Len(gql[q]))
        ELSE gql[q]]

\* lines 82-88: bring every wire of the span to the length of the longest
JustifySpan(gql, pos1, pos2) ==
  LET maxlayer == SetMax({Len(gql[j]) : j \in pos1..pos2})
  IN [q \in DOMAIN gql |->
        IF q \in pos1..pos2 /\ Len(gql[q]) # maxlayer
        THEN InsertNones(gql[q], Len(gql[q]) - 1, maxlayer - Len(gql[q]))
        ELSE gql[q]]

\* variant: the gate is stored on the highest wire of the span
AppendSpan_GateOnHighWire(gql, ref, pos1, pos2) ==
  [q \in DOMAIN gql |->
     IF q = pos2 THEN Append(gql[q], ref)
     ELSE IF q \in pos1..(pos2 - 1) THEN Append(gql[q], None)
     ELSE gql[q]]

\* lines 71-75: the gate on the lowest wire, None on the rest of the span
AppendSpan(gql, ref, pos1, pos2) ==
  [q \in DOMAIN gql |->
     IF q = pos1 THEN Append(gql[q], ref)
     ELSE IF q \in (pos1 + 1)..pos2 THEN Append(gql[q], None)
     ELSE gql[q]]

\* variant: the span is not brought to a common length
ScheduleGate_NoJustify(st, ref, gate) ==
  IF IsSingleQubitGate(gate) THEN
    [gateQlist |-> [st.gateQlist EXCEPT ![gate.pos[1]] = Append(@, ref)],
     used_qubits |-> AppendUsed(st.used_qubits, gate.pos[1])]
  ELSE IF IsBarrier(gate) \/ IsTwoQubitGate(gate) THEN
    LET pos1 == SetMin(Range(gate.pos))
        pos2 == SetMax(Range(gate.pos))
    IN [gateQlist |-> AppendSpan(st.gateQlist, ref, pos1, pos2),
        used_qubits |-> IF IsTwoQubitGate(gate)
                        THEN AppendAllUsed(st.used_qubits, gate.pos, 1)
                        ELSE st.used_qubits]
  ELSE st

\* one iteration of the loop of lines 64-88 for gate number ref
ScheduleGate(st, ref, gate) ==
  IF IsSingleQubitGate(gate) THEN
    [gateQlist |-> [st.gateQlist EXCEPT ![gate.pos[1]] = Append(@, ref)],
     used_qubits |-> AppendUsed(st.used_qubits, gate.pos[1])]
  ELSE IF IsBarrier(gate) \/ IsTwoQubitGate(gate) THEN
    LET pos1 == SetMin(Range(gate.pos))
        pos2 == SetMax(Range(gate.pos))
    IN [gateQlist |-> JustifySpan(AppendSpan(st.gateQlist, ref, pos1, pos2), pos1, pos2),
        used_qubits |-> IF IsTwoQubitGate(gate)
                        THEN AppendAllUsed(st.used_qubits, gate.pos, 1)
                        ELSE st.used_qubits]
  ELSE st

RECURSIVE ScheduleFrom(_, _, _)
ScheduleFrom(st, gatelist, i) ==
  IF i > Len(gatelist) THEN st
  ELSE ScheduleFrom(ScheduleGate(st, i, gatelist[i]), gatelist, i + 1)

\* lines 60-88
Schedule(n, gatelist) ==
  ScheduleFrom([gateQlist |-> [q \in 0..(n - 1) |-> <<>>], used_qubits |-> <<>>], gatelist, 1)

\* variant: rows are left at their scheduled length
PadRows_NoPadding(gql) == gql

\* lines 90-93
PadRows(gql) ==
  LET maxdepth == SetMax({Len(gql[q]) : q \in DOMAIN gql})
  IN [q \in DOMAIN gql |-> gql[q] \o Repeat(None, maxdepth - Len(gql[q]))]

\* variant: the keys of the measurement map are not added
ActiveQubits_GatesOnly(used, m) == SortedSeq(Range(used))

\* lines 95-98
ActiveQubits(used, m) == SortedSeq(Range(AppendAllUsed(used, Keys(m), 1)))

\* variant: the rows are not prefixed with the qubit index
BuildLayout_NoPrefix(gql, used) == [r \in 1..Len(used) |-> gql[used[r]]]

\* lines 100-107: keep the rows of the used qubits, each prefixed by its index
BuildLayout(gql, used) == [r \in 1..Len(used) |-> <<used[r]>> \o gql[used[r]]]

\* the whole method; defined when n >= 1 and every key of m is below n
LayeredCircuit(n, gatelist, m) ==
  LET st == Schedule(n, gatelist)
      used == ActiveQubits(st.used_qubits, m)
  IN [circuit |-> BuildLayout(PadRows(st.gateQlist), used), used_qubits |-> used]

\* measure(pos, shots, cbits, tomo), lines 567-574
MeasureOk(pos, cbits) == cbits = <<>> \/ Len(cbits) = Len(DictZip(pos, RangeList(Len(pos))))
MeasureMap(pos, cbits) ==
  IF cbits # <<>> /\ MeasureOk(pos, cbits) THEN DictZip(pos, cbits)
  ELSE DictZip(pos, RangeList(Len(pos)))

\* ------------------------------------------------------ builder methods
\* Each builder appends one gate object to self.gates (lines 415-554); here
\* as functions of the gate list.  Angles are counted in units of pi/2.
pi == 2

h(gs, pos) == Append(gs, HGate(pos))
x(gs, pos) == Append(gs, XGate(pos))
y(gs, pos) == Append(gs, YGate(pos))
z(gs, pos) == Append(gs, ZGate(pos))
rx(gs, pos, para) == IF para # 0 THEN Append(gs, RXGate(pos, para)) ELSE gs
ry(gs, pos, para) == IF para # 0 THEN Append(gs, RYGate(pos, para)) ELSE gs
\* variant: the gate is appended whatever the angle
rz_AlwaysAppends(gs, pos, para) == Append(gs, RZGate(pos, para))
rz(gs, pos, para) == IF para # 0 THEN Append(gs, RZGate(pos, para)) ELSE gs
cnot(gs, ctrl, tar) == Append(gs, CXGate(<<ctrl, tar>>))
cy(gs, ctrl, tar) == Append(gs, CYGate(<<ctrl, tar>>))
cz(gs, ctrl, tar) == Append(gs, CZGate(<<ctrl, tar>>))
swap(gs, q1, q2) == Append(gs, SwapGate(<<q1, q2>>))
barrier(gs, qlist) == Append(gs, Barrier(qlist))

\* --------------------------------------------------------- OpenQASM text
\* A text is a list of lines (str.splitlines), a line a list of tokens.  A
\* token is a word or punctuation mark (k = "w"), an integer literal written
\* by %d (k = "n") or a parameter literal written by %s (k = "f").
W(str) == [k |-> "w", s |-> str, n |-> 0]
N(i) == [k |-> "n", s |-> "", n |-> i]
F(a) == [k |-> "f", s |-> "", n |-> a]
SP == W(" ")

\* str.lower() on the gate names
Lower(name) ==
  CASE name = "H" -> "h" [] name = "X" -> "x" [] name = "Y" -> "y" [] name = "Z" -> "z"
    [] name = "RX" -> "rx" [] name = "RY" -> "ry" [] name = "RZ" -> "rz"
    [] name = "CX" -> "cx" [] name = "CY" -> "cy" [] name = "CZ" -> "cz"
    [] name = "SWAP" -> "swap"
    [] OTHER -> name

\* "q[%d]" % p
QArg(p) == <<W("q"), W("["), N(p), W("]")>>

\* ",".join(["q[%d]" % p for p in pos])
RECURSIVE JoinQArgs(_, _)
JoinQArgs(pos, i) ==
  IF i > Len(pos) THEN <<>>
  ELSE (IF i > 1 THEN <<W(",")>> ELSE <<>>) \o QArg(pos[i]) \o JoinQArgs(pos, i + 1)

\* variant: a barrier adds no line
GateStmt_NoBarrier(gate) ==
  IF gate.cls = "FixedSingleQubitGate" THEN
    << <<W(Lower(gate.name)), SP>> \o QArg(gate.pos[1]) \o <<W(";")>> >>
  ELSE IF gate.cls = "ParaSingleQubitGate" THEN
    << <<W(Lower(gate.name)), W("("), F(gate.paras), W(")"), SP>>
         \o QArg(gate.pos[1]) \o <<W(";")>> >>
  ELSE IF gate.cls = "FixedTwoQubitGate" THEN
    << <<W(Lower(gate.name)), SP>> \o QArg(gate.pos[1]) \o <<W(",")>>
         \o QArg(gate.pos[2]) \o <<W(";")>> >>
  ELSE <<>>

\* lines 298-305: the lines one gate adds to the text (none for a gate of
\* another class)
GateStmt(gate) ==
  IF gate.cls = "FixedSingleQubitGate" THEN
    << <<W(Lower(gate.name)), SP>> \o QArg(gate.pos[1]) \o <<W(";")>> >>
  ELSE IF gate.cls = "ParaSingleQubitGate" THEN
    << <<W(Lower(gate.name)), W("("), F(gate.paras), W(")"), SP>>
         \o QArg(gate.pos[1]) \o <<W(";")>> >>
  ELSE IF gate.cls = "FixedTwoQubitGate" THEN
    << <<W(Lower(gate.name)), SP>> \o QArg(gate.pos[1]) \o <<W(",")>>
         \o QArg(gate.pos[2]) \o <<W(";")>> >>
  ELSE IF gate.cls = "Barrier" THEN
    << <<W("barrier"), SP>> \o JoinQArgs(gate.pos, 1) \o <<W(";")>> >>
  ELSE <<>>

RECURSIVE GateStmts(_, _)
GateStmts(gs, i) == IF i > Len(gs) THEN <<>> ELSE GateStmt(gs[i]) \o GateStmts(gs, i + 1)

\* line 308
MeasureStmt(key, cbit) ==
  <<W("measure"), SP>> \o QArg(key) \o <<SP, W("->"), SP, W("meas"), W("["), N(cbit), W("]"), W(";")>>

\* lines 294-296
Header(n, ncbits) ==
  << <<W("OPENQASM 2.0;")>>,
     <<W("include \"qelib1.inc\";")>>,
     <<W("qreg"), SP, W("q"), W("["), N(n), W("]"), W(";")>>,
     <<W("creg"), SP, W("meas"), W("["), N(ncbits), W("]"), W(";")>> >>

\* lines 294-311
ToOpenqasm(n, gs, m) ==
  Header(n, Len(m)) \o GateStmts(gs, 1) \o [j \in 1..Len(m) |-> MeasureStmt(m[j][1], m[j][2])]

\* ---- parsing
\* index of the first token equal to sep, 0 if there is none
FirstIndex(toks, sep) ==
  IF \E i \in 1..Len(toks) : toks[i] = sep
  THEN CHOOSE i \in 1..Len(toks) : toks[i] = sep /\ \A j \in 1..(i - 1) : toks[j] # sep
  ELSE 0

\* str.split(sep, 1)
SplitOnce(toks, sep) ==
  LET i == FirstIndex(toks, sep)
  IN IF i = 0 THEN <<toks>> ELSE <<SubSeq(toks, 1, i - 1), SubSeq(toks, i + 1, Len(toks))>>

\* str.split(sep)
RECURSIVE Split(_, _)
Split(toks, sep) ==
  LET i == FirstIndex(toks, sep)
  IN IF i = 0 THEN <<toks>>
     ELSE <<SubSeq(toks, 1, i - 1)>> \o Split(SubSeq(toks, i + 1, Len(toks)), sep)

\* str.strip("()")
RECURSIVE StripParens(_)
StripParens(toks) ==
  IF toks = <<>> THEN toks
  ELSE IF toks[1] \in {W("("), W(")")} THEN StripParens(Tail(toks))
  ELSE IF toks[Len(toks)] \in {W("("), W(")")} THEN StripParens(SubSeq(toks, 1, Len(toks) - 1))
  ELSE toks

\* [int(d) for d in re.findall("\d+", qbs)]
FindInts(toks) ==
  LET digits == SelectSeq(toks, LAMBDA t : t.k = "n")
  IN [i \in 1..Len(digits) |-> digits[i].n]

\* eval(parai, {"pi": pi}) for a literal or the name pi
EvalPara(toks) ==
  IF toks = <<W("pi")>> THEN pi
  ELSE IF toks = <<W("-"), W("pi")>> THEN 0 - pi
  ELSE toks[1].n

\* the text of a one-word token list ("" otherwise)
Word(toks) == IF Len(toks) = 1 /\ toks[1].k = "w" THEN toks[1].s ELSE ""

\* variant: a mnemonic that is not known marks the import invalid
ApplyGateStmt_UnknownInvalid(st, gatename, inds, paras) ==
  CASE gatename = "cx" -> [st EXCEPT !.gates = cnot(@, inds[1], inds[2])]
    [] gatename = "cy" -> [st EXCEPT !.gates = cy(@, inds[1], inds[2])]
    [] gatename = "cz" -> [st EXCEPT !.gates = cz(@, inds[1], inds[2])]
    [] gatename = "swap" -> [st EXCEPT !.gates = swap(@, inds[1], inds[2])]
    [] gatename = "rx" -> [st EXCEPT !.gates = rx(@, inds[1], paras[1])]
    [] gatename = "ry" -> [st EXCEPT !.gates = ry(@, inds[1], paras[1])]
    [] gatename = "rz" -> [st EXCEPT !.gates = rz(@, inds[1], paras[1])]
    [] gatename = "x" -> [st EXCEPT !.gates = x(@, inds[1])]
    [] gatename = "y" -> [st EXCEPT !.gates = y(@, inds[1])]
    [] gatename = "z" -> [st EXCEPT !.gates = z(@, inds[1])]
    [] gatename = "h" -> [st EXCEPT !.gates = h(@, inds[1])]
    [] gatename = "u1" -> [st EXCEPT !.gates = rz(@, inds[1], paras[1])]
    [] gatename = "u2" ->
         [st EXCEPT !.gates = rz(ry(rz(@, inds[1], paras[2]), inds[1], pi \div 2), inds[1], paras[1])]
    [] gatename = "u3" ->
         [st EXCEPT !.gates = rz(ry(rz(@, inds[1], paras[3]), inds[1], paras[1]), inds[1], paras[2])]
    [] OTHER -> [st EXCEPT !.stdout = Append(@, <<"not supported", gatename>>),
                           !.global_valid = FALSE]

\* variant: u1 is given the three rotations of u3
ApplyGateStmt_U1AsThree(st, gatename, inds, paras) ==
  CASE gatename = "cx" -> [st EXCEPT !.gates = cnot(@, inds[1], inds[2])]
    [] gatename = "cy" -> [st EXCEPT !.gates = cy(@, inds[1], inds[2])]
    [] gatename = "cz" -> [st EXCEPT !.gates = cz(@, inds[1], inds[2])]
    [] gatename = "swap" -> [st EXCEPT !.gates = swap(@, inds[1], inds[2])]
    [] gatename = "rx" -> [st EXCEPT !.gates = rx(@, inds[1], paras[1])]
    [] gatename = "ry" -> [st EXCEPT !.gates = ry(@, inds[1], paras[1])]
    [] gatename = "rz" -> [st EXCEPT !.gates = rz(@, inds[1], paras[1])]
    [] gatename = "x" -> [st EXCEPT !.gates = x(@, inds[1])]
    [] gatename = "y" -> [st EXCEPT !.gates = y(@, inds[1])]
    [] gatename = "z" -> [st EXCEPT !.gates = z(@, inds[1])]
    [] gatename = "h" -> [st EXCEPT !.gates = h(@, inds[1])]
    [] gatename = "u1" ->
         [st EXCEPT !.gates = rz(ry(rz(@, inds[1], paras[1]), inds[1], pi \div 2), inds[1], paras[1])]
    [] gatename = "u2" ->
         [st EXCEPT !.gates = rz(ry(rz(@, inds[1], paras[2]), inds[1], pi \div 2), inds[1], paras[1])]
    [] gatename = "u3" ->
         [st EXCEPT !.gates = rz(ry(rz(@, inds[1], paras[3]), inds[1], paras[1]), inds[1], paras[2])]
    [] OTHER -> [st EXCEPT !.stdout = Append(@, <<"not supported", gatename>>)]

\* variant: cx is read with control and target exchanged
ApplyGateStmt_CxReversed(st, gatename, inds, paras) ==
  CASE gatename = "cx" -> [st EXCEPT !.gates = cnot(@, inds[2], inds[1])]
    [] gatename = "cy" -> [st EXCEPT !.gates = cy(@, inds[1], inds[2])]
    [] gatename = "cz" -> [st EXCEPT !.gates = cz(@, inds[1], inds[2])]
    [] gatename = "swap" -> [st EXCEPT !.gates = swap(@, inds[1], inds[2])]
    [] gatename = "rx" -> [st EXCEPT !.gates = rx(@, inds[1], paras[1])]
    [] gatename = "ry" -> [st EXCEPT !.gates = ry(@, inds[1], paras[1])]
    [] gatename = "rz" -> [st EXCEPT !.gates = rz(@, inds[1], paras[1])]
    [] gatename = "x" -> [st EXCEPT !.gates = x(@, inds[1])]
    [] gatename = "y" -> [st EXCEPT !.gates = y(@, inds[1])]
    [] gatename = "z" -> [st EXCEPT !.gates = z(@, inds[1])]
    [] gatename = "h" -> [st EXCEPT !.gates = h(@, inds[1])]
    [] gatename = "u1" -> [st EXCEPT !.gates = rz(@, inds[1], paras[1])]
    [] gatename = "u2" ->
         [st EXCEPT !.gates = rz(ry(rz(@, inds[1], paras[2]), inds[1], pi \div 2), inds[1], paras[1])]
    [] gatename = "u3" ->
         [st EXCEPT !.gates = rz(ry(rz(@, inds[1], paras[3]), inds[1], paras[1]), inds[1], paras[2])]
    [] OTHER -> [st EXCEPT !.stdout = Append(@, <<"not supported", gatename>>)]

\* lines 247-281: the builder calls made for one mnemonic; inds and paras are
\* python lists, indexed here from 1
ApplyGateStmt(st, gatename, inds, paras) ==
  CASE gatename = "cx" -> [st EXCEPT !.gates = cnot(@, inds[1], inds[2])]
    [] gatename = "cy" -> [st EXCEPT !.gates = cy(@, inds[1], inds[2])]
    [] gatename = "cz" -> [st EXCEPT !.gates = cz(@, inds[1], inds[2])]
    [] gatename = "swap" -> [st EXCEPT !.gates = swap(@, inds[1], inds[2])]
    [] gatename = "rx" -> [st EXCEPT !.gates = rx(@, inds[1], paras[1])]
    [] gatename = "ry" -> [st EXCEPT !.gates = ry(@, inds[1], paras[1])]
    [] gatename = "rz" -> [st EXCEPT !.gates = rz(@, inds[1], paras[1])]
    [] gatename = "x" -> [st EXCEPT !.gates = x(@, inds[1])]
    [] gatename = "y" -> [st EXCEPT !.gates = y(@, inds[1])]
    [] gatename = "z" -> [st EXCEPT !.gates = z(@, inds[1])]
    [] gatename = "h" -> [st EXCEPT !.gates = h(@, inds[1])]
    [] gatename = "u1" -> [st EXCEPT !.gates = rz(@, inds[1], paras[1])]
    [] gatename = "u2" ->
         [st EXCEPT !.gates = rz(ry(rz(@, inds[1], paras[2]), inds[1], pi \div 2), inds[1], paras[1])]
    [] gatename = "u3" ->
         [st EXCEPT !.gates = rz(ry(rz(@, inds[1], paras[3]), inds[1], paras[1]), inds[1], paras[2])]
    [] OTHER -> [st EXCEPT !.stdout = Append(@, <<"not supported", gatename>>)]

\* lines 240-245: mnemonic and parameter list of the word before the blank
GateName(operations) == Word(Split(operations, W("("))[1])
Paras(operations) ==
  LET sp_op == Split(operations, W("("))
  IN IF Len(sp_op) > 1
     THEN LET parastr == Split(StripParens(sp_op[2]), W(","))
          IN [i \in 1..Len(parastr) |-> EvalPara(parastr[i])]
     ELSE <<>>

\* variant: only the first operand is looked up among the measured qubits
ImportLine_FirstOperandOnly(st, line) ==
  IF line = <<>> THEN st
  ELSE
    LET operations_qbs == SplitOnce(line, SP)
        operations == Word(operations_qbs[1])
    IN IF operations = "qreg" THEN [st EXCEPT !.num = FindInts(operations_qbs[2])[1]]
       ELSE IF operations = "creg" THEN st
       ELSE IF operations = "measure" THEN
         LET inds == FindInts(operations_qbs[2])
         IN [st EXCEPT !.measures = DictSet(@, inds[1], inds[2]),
                       !.measured_qubits = Append(@, inds[1])]
       ELSE
         LET inds == FindInts(operations_qbs[2])
             valid == \A i \in 1..Len(inds) : i = 1 => ~InList(inds[i], st.measured_qubits)
         IN IF ~valid THEN [st EXCEPT !.global_valid = FALSE]
            ELSE IF operations = "barrier" THEN [st EXCEPT !.gates = barrier(@, inds)]
            ELSE ApplyGateStmt(st, GateName(operations_qbs[1]), inds, Paras(operations_qbs[1]))

\* lines 208-281: one iteration of the loop over the lines
ImportLine(st, line) ==
  IF line = <<>> THEN st
  ELSE
    LET operations_qbs == SplitOnce(line, SP)
        operations == Word(operations_qbs[1])
    IN IF operations = "qreg" THEN [st EXCEPT !.num = FindInts(operations_qbs[2])[1]]
       ELSE IF operations = "creg" THEN st
       ELSE IF operations = "measure" THEN
         LET inds == FindInts(operations_qbs[2])
         IN [st EXCEPT !.measures = DictSet(@, inds[1], inds[2]),
                       !.measured_qubits = Append(@, inds[1])]
       ELSE
         LET inds == FindInts(operations_qbs[2])
             valid == \A i \in 1..Len(inds) : ~InList(inds[i], st.measured_qubits)
         IN IF ~valid THEN [st EXCEPT !.global_valid = FALSE]
            ELSE IF operations = "barrier" THEN [st EXCEPT !.gates = barrier(@, inds)]
            ELSE ApplyGateStmt(st, GateName(operations_qbs[1]), inds, Paras(operations_qbs[1]))

RECURSIVE ImportLines(_, _, _)
ImportLines(st, lines, i) ==
  IF i > Len(lines) THEN st ELSE ImportLines(ImportLine(st, lines[i]), lines, i + 1)

\* lines 201-286; n is self.num before the call
FromOpenqasm(n, text) ==
  LET st == ImportLines([num |-> n, gates |-> <<>>, measures |-> <<>>,
                         measured_qubits |-> <<>>, global_valid |-> TRUE, stdout |-> <<>>],
                        text, 3)
  IN [st EXCEPT !.measures = IF st.measures = <<>> THEN DefaultMeasures(st.num) ELSE @,
                !.stdout = IF st.global_valid THEN @ ELSE Append(@, <<"removed", "">>)]

\* ---------------------------------------------- inputs of the scheduler
Qubits(n) == 0..(n - 1)

LayerGates(n) ==
  {HGate(p) : p \in Qubits(n)}
  \cup {CXGate(ps) : ps \in DistinctSeqs(Qubits(n), 2, 2)}
  \cup {Barrier(ps) : ps \in AscendingSeqs(Qubits(n), 1, MaxBarrier)}

SeqsUpTo(S, k) == UNION {[1..j -> S] : j \in 0..k}

\* the maps measure(pos) leaves for pos = [], [q] and range(n); the last is
\* also the default map of __init__
MeasureLists(n) == {<<>>, RangeList(n)} \cup {<<q>> : q \in Qubits(n)}
MeasureMaps(n) == {MeasureMap(pos, <<>>) : pos \in MeasureLists(n)}

InitLayer ==
  /\ num \in 1..MaxQubits
  /\ gates \in SeqsUpTo(LayerGates(num), MaxGates)
  /\ measures \in MeasureMaps(num)
  /\ shots = 1000
  /\ tomo = FALSE
  /\ openqasm = <<>>
  /\ circuit = <<>>
  /\ used_qubits = <<>>
  /\ global_valid = TRUE
  /\ stdout = <<>>
  /\ pc = "ready"
  /\ input = [num |-> num, gates |-> gates, measures |-> measures]
  /\ Idle

layered_circuit ==
  /\ pc = "ready"
  /\ LET lc == LayeredCircuit(num, gates, measures)
     IN /\ circuit' = lc.circuit
        /\ used_qubits' = lc.used_qubits
  /\ pc' = "layered"
  /\ UNCHANGED <<num, gates, measures, shots, tomo, openqasm, global_valid, stdout, input>>
  /\ UNCHANGED <<raised, algebra, task, plot>>

NextLayer == layered_circuit

SpecLayer == InitLayer /\ [][NextLayer]_vars

\* ------------------------------------------- export and re-import
\* the non-zero angles used for the inputs, in units of pi/2
CodecAngles == {1}

\* every gate a builder call can append on n qubits
CodecGates(n) ==
  {HGate(p) : p \in Qubits(n)} \cup {XGate(p) : p \in Qubits(n)}
  \cup {YGate(p) : p \in Qubits(n)} \cup {ZGate(p) : p \in Qubits(n)}
  \cup {RXGate(p, a) : p \in Qubits(n), a \in CodecAngles}
  \cup {RYGate(p, a) : p \in Qubits(n), a \in CodecAngles}
  \cup {RZGate(p, a) : p \in Qubits(n), a \in CodecAngles}
  \cup {CXGate(ps) : ps \in DistinctSeqs(Qubits(n), 2, 2)}
  \cup {CYGate(ps) : ps \in DistinctSeqs(Qubits(n), 2, 2)}
  \cup {CZGate(ps) : ps \in DistinctSeqs(Qubits(n), 2, 2)}
  \cup {SwapGate(ps) : ps \in DistinctSeqs(Qubits(n), 2, 2)}
  \cup {Barrier(ps) : ps \in DistinctSeqs(Qubits(n), 1, MaxBarrier)}

\* the default map and the maps left by measure(pos) and measure(pos, cbits=pos)
CodecMeasures(n) ==
  {DefaultMeasures(n)}
  \cup {MeasureMap(pos, <<>>) : pos \in DistinctSeqs(Qubits(n), 0, MaxMeasured)}
  \cup {MeasureMap(pos, pos) : pos \in DistinctSeqs(Qubits(n), 0, MaxMeasured)}

InitCodec ==
  /\ num \in 1..CodecQubits
  /\ gates \in SeqsUpTo(CodecGates(num), CodecMaxGates)
  /\ measures \in CodecMeasures(num)
  /\ shots = 1000
  /\ tomo = FALSE
  /\ openqasm = <<>>
  /\ circuit = <<>>
  /\ used_qubits = <<>>
  /\ global_valid = TRUE
  /\ stdout = <<>>
  /\ pc = "ready"
  /\ input = [num |-> num, gates |-> gates, measures |-> measures]
  /\ Idle

to_openqasm ==
  /\ pc = "ready"
  /\ openqasm' = ToOpenqasm(num, gates, measures)
  /\ pc' = "exported"
  /\ UNCHANGED <<num, gates, measures, shots, tomo, circuit, used_qubits, global_valid,
                 stdout, input>>
  /\ UNCHANGED <<raised, algebra, task, plot>>

from_openqasm(text) ==
  /\ \E res \in {FromOpenqasm(num, text)} :
        /\ num' = res.num
        /\ gates' = res.gates
        /\ measures' = res.measures
        /\ global_valid' = res.global_valid
        /\ stdout' = stdout \o res.stdout
  /\ openqasm' = text
  /\ pc' = "imported"
  /\ UNCHANGED <<shots, tomo, circuit, used_qubits, input>>
  /\ UNCHANGED <<raised, algebra, task, plot>>

\* from_openqasm(to_openqasm())
Reimport == pc = "exported" /\ from_openqasm(openqasm)

NextCodec == to_openqasm \/ Reimport

SpecCodec == InitCodec /\ [][NextCodec]_vars

\* ------------------------------------------------- import of a text
ImportAngles == {0, 1}

Stmt(word, paras, qs) ==
  <<W(word)>>
  \o (IF paras = <<>> THEN <<>>
      ELSE <<W("(")>>
           \o [i \in 1..(2 * Len(paras) - 1) |->
                 IF i % 2 = 1 THEN F(paras[(i + 1) \div 2]) ELSE W(",")]
           \o <<W(")")>>)
  \o <<SP>> \o JoinQArgs(qs, 1) \o <<W(";")>>

\* the statements of the input texts on n qubits: recognized gates, a
\* rotation and a u1 gate with and without a zero angle, a u3 gate, mnemonics
\* the importer does not know (with and without a parameter), barriers and
\* measure statements
ImportStmts(n) ==
  {Stmt("h", <<>>, <<q>>) : q \in Qubits(n)}
  \cup {Stmt("rx", <<a>>, <<q>>) : q \in Qubits(n), a \in ImportAngles}
  \cup {Stmt("u1", <<a>>, <<q>>) : q \in Qubits(n), a \in ImportAngles}
  \cup {Stmt("u3", <<1, 0, 2>>, <<q>>) : q \in Qubits(n)}
  \cup {Stmt("t", <<>>, <<q>>) : q \in Qubits(n)}
  \cup {Stmt("p", <<1>>, <<0>>)}
  \cup {Stmt("cx", <<>>, qs) : qs \in DistinctSeqs(Qubits(n), 2, 2)}
  \cup {Stmt("barrier", <<>>, qs) : qs \in AscendingSeqs(Qubits(n), 1, MaxBarrier)}
  \cup {MeasureStmt(q, c) : q \in Qubits(n), c \in Qubits(n)}

\* a text: the four header lines and at most MaxStmts statements
ImportText(n, stmts) == Header(n, n) \o stmts

\* a circuit as QuantumCircuit(ImportQubits) leaves it
InitImport ==
  /\ num = ImportQubits
  /\ gates = <<>>
  /\ measures = DefaultMeasures(num)
  /\ shots = 1000
  /\ tomo = FALSE
  /\ openqasm = <<>>
  /\ circuit = <<>>
  /\ used_qubits = <<>>
  /\ global_valid = TRUE
  /\ stdout = <<>>
  /\ pc = "ready"
  /\ input = [num |-> num, gates |-> gates, measures |-> measures]
  /\ Idle

Import ==
  /\ pc = "ready"
  /\ \E n \in 1..ImportQubits : \E k \in 0..MaxStmts : \E stmts \in [1..k -> ImportStmts(n)] :
       from_openqasm(ImportText(n, stmts))

NextImport == Import

SpecImport == InitImport /\ [][NextImport]_vars

\* ------------------------------------------------------------ gate algebra
\* (src/quafu/elements/quantum_element/quantum_gate.py)
\* A numpy matrix is a record [rows, cols, at] with at[<<r, c>>] the entry of
\* row r and column c, both counted from 0.  Entries are integers standing
\* for the complex entries; the algebra only creates 0 and 1 and moves
\* entries.
RECURSIVE Pow2(_)
Pow2(k) == IF k <= 0 THEN 1 ELSE 2 * Pow2(k - 1)

Matrix(rows, cols, at) == [rows |-> rows, cols |-> cols, at |-> at]

\* np.eye(dim)
Eye(dim) == Matrix(dim, dim, [r \in 0..(dim - 1), c \in 0..(dim - 1) |-> IF r = c THEN 1 ELSE 0])

\* np.argsort(pos) for a list without repetitions: the 0-based index of the
\* i-th smallest entry
ArgSort(pos) ==
  [i \in 1..Len(pos) |->
     (CHOOSE j \in 1..Len(pos) : Cardinality({l \in 1..Len(pos) : pos[l] < pos[j]}) = i - 1) - 1]

\* the bit of axis n (0 = most significant) of the index r of 2^k entries
Bit(r, n, k) == (r \div Pow2(k - 1 - n)) % 2

\* the index whose bit of axis inds[n] is the bit of axis n of r
RECURSIVE SourceIndex(_, _, _, _)
SourceIndex(r, inds, k, n) ==
  IF n >= k THEN 0
  ELSE Bit(r, n, k) * Pow2(k - 1 - inds[n + 1]) + SourceIndex(r, inds, k, n + 1)

\* variant: the positions are sorted in descending order
ReorderMatrix_Descending(m, pos) ==
  LET qnum == Len(pos)
      dim == Pow2(qnum)
      inds == [i \in 1..qnum |-> ArgSort(pos)[qnum + 1 - i]]
  IN IF m.rows * m.cols # dim * dim THEN [raised |-> "ValueError", matrix |-> <<>>]
     ELSE [raised |-> "",
           matrix |-> Matrix(dim, dim,
                        [r \in 0..(dim - 1), c \in 0..(dim - 1) |->
                          LET src == SourceIndex(r, inds, qnum, 0) * dim
                                       + SourceIndex(c, inds, qnum, 0)
                          IN m.at[<<src \div m.cols, src % m.cols>>]])]

\* reorder_matrix, lines 9-16: reshape to 2 x ... x 2, move axis inds[n] and
\* axis inds[n] + qnum to the places n and n + qnum, reshape to dim x dim.
\* reshape raises ValueError when the entry counts differ.
ReorderMatrix(m, pos) ==
  LET qnum == Len(pos)
      dim == Pow2(qnum)
      inds == ArgSort(pos)
  IN IF m.rows * m.cols # dim * dim THEN [raised |-> "ValueError", matrix |-> <<>>]
     ELSE [raised |-> "",
           matrix |-> Matrix(dim, dim,
                        [r \in 0..(dim - 1), c \in 0..(dim - 1) |->
                          LET src == SourceIndex(r, inds, qnum, 0) * dim
                                       + SourceIndex(c, inds, qnum, 0)
                          IN m.at[<<src \div m.cols, src % m.cols>>]])]

\* self._matrix[control_dim:, control_dim:] = tar_matrix on a square matrix:
\* the slice is empty when control_dim is past the end; the value must have
\* the shape of the slice or broadcast to it, else numpy raises ValueError
AssignBlock(m, control_dim, tar) ==
  LET side == IF m.rows > control_dim THEN m.rows - control_dim ELSE 0
      fits(n) == n = side \/ n = 1
  IN IF ~(fits(tar.rows) /\ fits(tar.cols)) THEN [raised |-> "ValueError", matrix |-> m]
     ELSE [raised |-> "",
           matrix |-> Matrix(m.rows, m.cols,
                        [r \in 0..(m.rows - 1), c \in 0..(m.cols - 1) |->
                          IF r >= control_dim /\ c >= control_dim
                          THEN tar.at[<<IF tar.rows = 1 THEN 0 ELSE r - control_dim,
                                        IF tar.cols = 1 THEN 0 ELSE c - control_dim>>]
                          ELSE m.at[<<r, c>>]])]

\* ControlledGate.__init__, lines 137-152; embedded is self._matrix before
\* line 152
ControlledGate(ctrls, targs, tar_matrix) ==
  LET pos == ctrls \o targs
      targ_dim == Pow2(Len(targs))
      ctrl_dim == Pow2(Len(ctrls))
      dim == targ_dim + ctrl_dim
      control_dim == Pow2(Len(pos)) - targ_dim
      block == AssignBlock(Eye(dim), control_dim, tar_matrix)
      reordered == ReorderMatrix(block.matrix, pos)
  IN IF block.raised # ""
     THEN [raised |-> block.raised, ctrls |-> ctrls, targs |-> targs, pos |-> pos,
           embedded |-> <<>>, _matrix |-> <<>>]
     ELSE [raised |-> reordered.raised, ctrls |-> ctrls, targs |-> targs, pos |-> pos,
           embedded |-> block.matrix, _matrix |-> reordered.matrix]

\* ---- inputs of the gate algebra
\* a matrix of side 2^k with pairwise distinct entries, none of them 0 or 1
Generic(k) == Matrix(Pow2(k), Pow2(k), [r \in 0..(Pow2(k) - 1), c \in 0..(Pow2(k) - 1) |-> 2 + r * Pow2(k) + c])
\* the Pauli X matrix on every one of k target qubits
Flip(k) == Matrix(Pow2(k), Pow2(k), [r \in 0..(Pow2(k) - 1), c \in 0..(Pow2(k) - 1) |-> IF r + c = Pow2(k) - 1 THEN 1 ELSE 0])
Matrices(k) == {Generic(k), Flip(k), Eye(Pow2(k))}

IsPermutation(pos) == Range(pos) = 0..(Len(pos) - 1)
\* the inverse of a permutation of 0..k-1
Inverse(pos) == [i \in 1..Len(pos) |-> (CHOOSE j \in 1..Len(pos) : pos[j] = i - 1) - 1]

ReorderInputs ==
  {[kind |-> "reorder", pos |-> pos, m |-> m] :
     pos \in DistinctSeqs(0..(MaxAxes - 1), 1, MaxAxes),
     m \in UNION {Matrices(k) : k \in 1..MaxAxes}}

ControlledInputs ==
  {[kind |-> "controlled", ctrls |-> SubSeq(pos, 1, c), targs |-> SubSeq(pos, c + 1, Len(pos)),
    tar_matrix |-> tm] :
     pos \in DistinctSeqs(0..(MaxAxes - 1), 2, MaxAxes), c \in 1..(MaxAxes - 1),
     tm \in UNION {Matrices(k) : k \in 1..(MaxAxes - 1)}}

AlgebraInputs ==
  {i \in ReorderInputs : i.m.rows = Pow2(Len(i.pos))}
  \cup {i \in ControlledInputs : Len(i.targs) >= 1 /\ i.tar_matrix.rows = Pow2(Len(i.targs))}

InitAlgebra ==
  /\ num = 0
  /\ gates = <<>>
  /\ measures = <<>>
  /\ shots = 1000
  /\ tomo = FALSE
  /\ openqasm = <<>>
  /\ circuit = <<>>
  /\ used_qubits = <<>>
  /\ global_valid = TRUE
  /\ stdout = <<>>
  /\ pc = "ready"
  /\ input \in AlgebraInputs
  /\ Idle

circuitvars == <<num, gates, measures, shots, tomo, openqasm, circuit, used_qubits,
                 global_valid, stdout>>

\* reorder_matrix(m, pos)
reorder_matrix ==
  /\ pc = "ready"
  /\ input.kind = "reorder"
  /\ \E res \in {ReorderMatrix(input.m, input.pos)} :
       /\ matrix' = res.matrix
       /\ raised' = res.raised
  /\ pc' = "reordered"
  /\ UNCHANGED <<circuitvars, input, cgate, task, plot>>

\* reorder_matrix(matrix, inverse of pos) on the result of the first call
reorder_back ==
  /\ pc = "reordered"
  /\ raised = ""
  /\ IsPermutation(input.pos)
  /\ \E res \in {ReorderMatrix(matrix, Inverse(input.pos))} :
       /\ matrix' = res.matrix
       /\ raised' = res.raised
  /\ pc' = "restored"
  /\ UNCHANGED <<circuitvars, input, cgate, task, plot>>

\* ControlledGate(name, ctrls, targs, paras, tar_matrix)
construct ==
  /\ pc = "ready"
  /\ input.kind = "controlled"
  /\ \E res \in {ControlledGate(input.ctrls, input.targs, input.tar_matrix)} :
       /\ cgate' = res
       /\ raised' = res.raised
  /\ pc' = "constructed"
  /\ UNCHANGED <<circuitvars, input, matrix, task, plot>>

NextAlgebra == reorder_matrix \/ reorder_back \/ construct

SpecAlgebra == InitAlgebra /\ [][NextAlgebra]_vars

\* ------------------------------------------------- calls of the methods
\* The circuit object as a record, as a method sees it through self.
Self ==
  [num |-> num, gates |-> gates, measures |-> measures, shots |-> shots, tomo |-> tomo,
   openqasm |-> openqasm, circuit |-> circuit, used_qubits |-> used_qubits]

\* QuantumCircuit(n), lines 22-31
QuantumCircuit(n) ==
  [num |-> n, gates |-> <<>>, measures |-> DefaultMeasures(n), shots |-> 1000, tomo |-> FALSE,
   openqasm |-> <<>>, circuit |-> <<>>, used_qubits |-> <<>>]

\* the variables of the circuit take the fields of the record s
Becomes(s) ==
  /\ num' = s.num
  /\ gates' = s.gates
  /\ measures' = s.measures
  /\ shots' = s.shots
  /\ tomo' = s.tomo
  /\ openqasm' = s.openqasm
  /\ circuit' = s.circuit
  /\ used_qubits' = s.used_qubits

\* measure(pos, shots, cbits, tomo), lines 567-574: the map, shots and tomo are
\* set before the length of cbits is looked at
\* variant: the lengths are compared before anything is assigned
Measure_ChecksFirst(self, pos, sh, cbits, tm) ==
  IF cbits # <<>> /\ ~MeasureOk(pos, cbits) THEN [raised |-> "CircuitError", self |-> self]
  ELSE [raised |-> "",
        self |-> [self EXCEPT !.measures = MeasureMap(pos, cbits), !.shots = sh, !.tomo = tm]]

Measure(self, pos, sh, cbits, tm) ==
  LET set == [self EXCEPT !.measures = DictZip(pos, RangeList(Len(pos))),
                          !.shots = sh, !.tomo = tm]
  IN IF cbits # <<>> /\ ~MeasureOk(pos, cbits) THEN [raised |-> "CircuitError", self |-> set]
     ELSE [raised |-> "", self |-> [set EXCEPT !.measures = MeasureMap(pos, cbits)]]

\* ---- the measurement calls on a circuit
ShotCounts == {1000, 3000}

\* a fresh circuit, or one with a gate and the map of an earlier measure call
InitMeasure ==
  /\ num \in 1..CallQubits
  /\ gates \in {<<>>, h(<<>>, 0)}
  /\ measures = DefaultMeasures(num)
  /\ shots = 1000
  /\ tomo = FALSE
  /\ openqasm = <<>>
  /\ circuit = <<>>
  /\ used_qubits = <<>>
  /\ global_valid = TRUE
  /\ stdout = <<>>
  /\ pc = "ready"
  /\ input = [pos |-> <<>>, cbits |-> <<>>, shots |-> shots, tomo |-> tomo]
  /\ Idle

measure ==
  /\ \E pos \in SeqsUpTo(Qubits(num), MaxPos), cbits \in SeqsUpTo(Qubits(num), MaxPos),
        sh \in ShotCounts, tm \in BOOLEAN :
       /\ \E res \in {Measure(Self, pos, sh, cbits, tm)} :
            /\ Becomes(res.self)
            /\ raised' = res.raised
       /\ input' = [pos |-> pos, cbits |-> cbits, shots |-> sh, tomo |-> tm]
  /\ pc' = "measure"
  /\ UNCHANGED <<global_valid, stdout, algebra, task, plot>>

NextMeasure == measure

SpecMeasure == InitMeasure /\ [][NextMeasure]_vars

\* ---- the builder calls on a fresh circuit
\* the positions handed to the builders: the qubits of the register and the
\* first position past it
Positions(n) == 0..n
BuilderAngles == {0, 1}
BuilderNames == {"h", "x", "y", "z", "rx", "ry", "rz", "cnot", "cy", "cz", "swap", "barrier"}

InitBuild ==
  /\ num \in 1..CallQubits
  /\ gates = <<>>
  /\ measures = DefaultMeasures(num)
  /\ shots = 1000
  /\ tomo = FALSE
  /\ openqasm = <<>>
  /\ circuit = <<>>
  /\ used_qubits = <<>>
  /\ global_valid = TRUE
  /\ stdout = <<>>
  /\ pc = "ready"
  /\ input = [pos |-> <<>>, paras |-> None]
  /\ Idle

\* a builder call with the positions ps and the angle para (None for a gate
\* without angle) returned with the gate list gs; no builder raises.  input
\* keeps the arguments and the gate list and measurement map before the call
Built(name, ps, para, gs) ==
  /\ Len(gates) < MaxBuilt
  /\ gates' = gs
  /\ pc' = name
  /\ input' = [pos |-> ps, paras |-> para, gates |-> gates, measures |-> measures]
  /\ raised' = ""
  /\ UNCHANGED <<num, measures, shots, tomo, openqasm, circuit, used_qubits, global_valid,
                 stdout, algebra, task, plot>>

Call_h == \E p \in Positions(num) : Built("h", <<p>>, None, h(gates, p))
Call_x == \E p \in Positions(num) : Built("x", <<p>>, None, x(gates, p))
Call_y == \E p \in Positions(num) : Built("y", <<p>>, None, y(gates, p))
Call_z == \E p \in Positions(num) : Built("z", <<p>>, None, z(gates, p))
Call_rx == \E p \in Positions(num), a \in BuilderAngles : Built("rx", <<p>>, a, rx(gates, p, a))
Call_ry == \E p \in Positions(num), a \in BuilderAngles : Built("ry", <<p>>, a, ry(gates, p, a))
Call_rz == \E p \in Positions(num), a \in BuilderAngles : Built("rz", <<p>>, a, rz(gates, p, a))
Call_cnot == \E c, t \in Positions(num) : Built("cnot", <<c, t>>, None, cnot(gates, c, t))
Call_cy == \E c, t \in Positions(num) : Built("cy", <<c, t>>, None, cy(gates, c, t))
Call_cz == \E c, t \in Positions(num) : Built("cz", <<c, t>>, None, cz(gates, c, t))
Call_swap == \E q1, q2 \in Positions(num) : Built("swap", <<q1, q2>>, None, swap(gates, q1, q2))
Call_barrier ==
  \E qlist \in SeqsUpTo(Positions(num), MaxBarrier) \ {<<>>} :
    Built("barrier", qlist, None, barrier(gates, qlist))

NextBuild ==
  \/ Call_h \/ Call_x \/ Call_y \/ Call_z
  \/ Call_rx \/ Call_ry \/ Call_rz
  \/ Call_cnot \/ Call_cy \/ Call_cz \/ Call_swap
  \/ Call_barrier

SpecBuild == InitBuild /\ [][NextBuild]_vars

\* ---- layered_circuit and to_openqasm as calls on the object
\* variant: a layout computed earlier is kept
LayeredCall_Cached(self) ==
  IF \E i \in 1..Len(self.gates) : SetMax(Range(self.gates[i].pos)) >= self.num
  THEN [raised |-> "IndexError", self |-> self]
  ELSE IF self.circuit # <<>> THEN [raised |-> "", self |-> self]
  ELSE LET lc == LayeredCircuit(self.num, self.gates, self.measures)
       IN [raised |-> "",
           self |-> [self EXCEPT !.circuit = lc.circuit, !.used_qubits = lc.used_qubits]]

\* layered_circuit(), lines 60-110, for positions that are not negative and
\* keys of measures below num: indexing gateQlist with a position of num or
\* more raises IndexError (lines 66, 73, 75) before self.circuit is assigned
LayeredCall(self) ==
  IF \E i \in 1..Len(self.gates) : SetMax(Range(self.gates[i].pos)) >= self.num
  THEN [raised |-> "IndexError", self |-> self]
  ELSE LET lc == LayeredCircuit(self.num, self.gates, self.measures)
       IN [raised |-> "",
           self |-> [self EXCEPT !.circuit = lc.circuit, !.used_qubits = lc.used_qubits]]

\* to_openqasm(), lines 294-311
ToOpenqasmCall(self) ==
  [raised |-> "",
   self |-> [self EXCEPT !.openqasm = ToOpenqasm(self.num, self.gates, self.measures)]]

\* a circuit just built, with the default map or the map of a measure call
InitPure ==
  /\ num \in 1..CallQubits
  /\ gates = <<>>
  /\ measures \in MeasureMaps(num)
  /\ shots = 1000
  /\ tomo = FALSE
  /\ openqasm = <<>>
  /\ circuit = <<>>
  /\ used_qubits = <<>>
  /\ global_valid = TRUE
  /\ stdout = <<>>
  /\ pc = "ready"
  /\ input = [pos |-> <<>>, paras |-> None]
  /\ Idle

Call_layered_circuit ==
  /\ \E res \in {LayeredCall(Self)} :
       /\ Becomes(res.self)
       /\ raised' = res.raised
  /\ pc' = "layered_circuit"
  /\ UNCHANGED <<global_valid, stdout, input, algebra, task, plot>>

Call_to_openqasm ==
  /\ \E res \in {ToOpenqasmCall(Self)} :
       /\ Becomes(res.self)
       /\ raised' = res.raised
  /\ pc' = "to_openqasm"
  /\ UNCHANGED <<global_valid, stdout, input, algebra, task, plot>>

NextPure ==
  \/ Call_layered_circuit
  \/ Call_to_openqasm
  \/ Call_h \/ Call_cnot \/ Call_barrier

SpecPure == InitPure /\ [][NextPure]_vars

\* ---------------------------------------- rotations by calls and by import
\* the statements of the texts: u1, u2 and u3 gates with no, some and only
\* zero angles, a gate without angle and a measure statement
ZeroStmts(n) ==
  {Stmt("u1", <<a>>, <<q>>) : q \in Qubits(n), a \in ImportAngles}
  \cup {Stmt("u2", <<a, 0>>, <<0>>) : a \in ImportAngles}
  \cup {Stmt("u3", <<1, 0, 2>>, <<q>>) : q \in Qubits(n)}
  \cup {Stmt("u3", <<a, a, a>>, <<0>>) : a \in ImportAngles}
  \cup {Stmt("h", <<>>, <<0>>), MeasureStmt(0, 0)}

ImportRotations ==
  /\ pc = "ready"
  /\ \E k \in 0..MaxStmts : \E stmts \in [1..k -> ZeroStmts(num)] :
       from_openqasm(ImportText(num, stmts))

\* a fresh circuit that is filled from a text, by calls of rx, ry and rz, or
\* by both
NextZero == ImportRotations \/ Call_rx \/ Call_ry \/ Call_rz

SpecZero == InitImport /\ [][NextZero]_vars

\* ------------------------------------------------------------ submit_task
\* An observable, like a measurement basis, is a list of <<pauli, qubit>>
\* pairs: ["XY", [0, 1]] is <<<<"X", 0>>, <<"Y", 1>>>>.
Paulis == {"X", "Y", "Z"}

\* inputs = self.gates, line 333: a second name for the list object of
\* self.gates, not a copy
SaveInputs(gs) == [same_object |-> TRUE, items |-> gs]

\* the list seen through the name inputs once the list of self.gates holds gs
SeenThrough(saved, gs) == IF saved.same_object THEN [saved EXCEPT !.items = gs] ELSE saved

\* lines 374-378: the rotations run() appends for one measurement basis
RECURSIVE RunGates(_, _, _)
RunGates(gs, base, i) ==
  IF i > Len(base) THEN gs
  ELSE RunGates(IF base[i][1] = "X" THEN ry(gs, base[i][2], 0 - (pi \div 2))
                ELSE IF base[i][1] = "Y" THEN rx(gs, base[i][2], pi \div 2)
                ELSE gs,
                base, i + 1)

\* lines 342-344: a qubit of an observable that is no key of measures
NotMeasured(obslist, m) ==
  \E o \in 1..Len(obslist) : \E i \in 1..Len(obslist[o]) : ~HasKey(m, obslist[o][i][2])

\* merge_measure(obslist), line 346: the measurement bases the observables are
\* run in, one per observable or one for two observables on different qubits
MergeMeasure(obslist) ==
  {obslist}
  \cup (IF Len(obslist) = 2
           /\ \A i \in 1..Len(obslist[1]), j \in 1..Len(obslist[2]) :
                obslist[1][i][2] # obslist[2][j][2]
        THEN {<<obslist[1] \o obslist[2]>>}
        ELSE {})

\* the status the remote runner answers with: 5002 and 5001 raise ServerError
\* (lines 406-410)
Stats == {0, 5001, 5002}

\* the observables on the qubits of an n-qubit register, positions ascending
Observables(n) ==
  {<<<<p, q>>>> : p \in Paulis, q \in Qubits(n)}
  \cup {<<<<p1, q1>>, <<p2, q2>>>> : p1 \in Paulis, p2 \in Paulis, q1 \in Qubits(n), q2 \in Qubits(n)}

InitTask ==
  /\ num \in 1..CallQubits
  /\ gates \in {<<>>, h(<<>>, 0)}
  /\ measures \in {DefaultMeasures(num), MeasureMap(<<0>>, <<>>)}
  /\ shots = 1000
  /\ tomo = FALSE
  /\ openqasm = <<>>
  /\ circuit = <<>>
  /\ used_qubits = <<>>
  /\ global_valid = TRUE
  /\ stdout = <<>>
  /\ pc = "ready"
  /\ input = [gates |-> gates, obslist |-> <<>>]
  /\ Idle

\* send(), lines 394-413, answered with status stat
Sent(stat, base) ==
  /\ openqasm' = ToOpenqasm(num, gates', measures)
  /\ IF stat \in {5001, 5002}
     THEN /\ raised' = "ServerError"
          /\ pc' = "raised"
          /\ exec_res' = exec_res
     ELSE /\ raised' = ""
          /\ exec_res' = Append(exec_res, [qasm |-> openqasm', measure_base |-> base])

\* submit_task(obslist), lines 333-347: up to the loop over the bases; with
\* no observable the circuit is run once
submit_task ==
  /\ pc = "ready"
  /\ \E obslist \in SeqsUpTo({o \in Observables(num) :
                                \A i, j \in 1..Len(o) : i < j => o[i][2] < o[j][2]}, MaxObs) :
       /\ input' = [gates |-> gates, obslist |-> obslist]
       /\ inputs' = SaveInputs(gates)
       /\ IF obslist = <<>> THEN
            /\ stdout' = Append(stdout, <<"No observable measurement task.", "">>)
            /\ gates' = gates
            /\ measure_basis' = <<>>
            /\ \E stat \in Stats :
                 /\ Sent(stat, <<>>)
                 /\ stat = 0 => pc' = "returned"
          ELSE IF NotMeasured(obslist, measures) THEN
            /\ raised' = "CircuitError"
            /\ pc' = "raised"
            /\ UNCHANGED <<gates, openqasm, stdout, measure_basis, exec_res>>
          ELSE
            /\ measure_basis' \in MergeMeasure(obslist)
            /\ stdout' = Append(stdout, <<"Job start, need measured in ", "">>)
            /\ pc' = "submit_task"
            /\ raised' = ""
            /\ UNCHANGED <<gates, openqasm, exec_res>>
  /\ UNCHANGED <<num, measures, shots, tomo, circuit, used_qubits, global_valid, algebra, plot>>

\* one turn of the loop of lines 350-353: run(measure_base) appends the
\* rotations to the list of self.gates and sends the text; then
\* self.gates = inputs
run ==
  /\ pc = "submit_task"
  /\ measure_basis # <<>>
  /\ \E stat \in Stats :
       LET measure_base == Head(measure_basis)
           appended == RunGates(gates, measure_base, 1)
       IN /\ inputs' = SeenThrough(inputs, appended)
          /\ IF stat = 0
             THEN /\ gates' = inputs'.items
                  /\ openqasm' = ToOpenqasm(num, appended, measures)
                  /\ exec_res' = Append(exec_res, [qasm |-> openqasm', measure_base |-> measure_base])
                  /\ measure_basis' = Tail(measure_basis)
                  /\ UNCHANGED <<raised, pc>>
             ELSE /\ gates' = appended
                  /\ openqasm' = ToOpenqasm(num, appended, measures)
                  /\ raised' = "ServerError"
                  /\ pc' = "raised"
                  /\ UNCHANGED <<exec_res, measure_basis>>
  /\ UNCHANGED <<num, measures, shots, tomo, circuit, used_qubits, global_valid, stdout, input,
                 algebra, plot>>

\* lines 355-361: every basis was run, submit_task returns
submit_task_return ==
  /\ pc = "submit_task"
  /\ measure_basis = <<>>
  /\ pc' = "returned"
  /\ UNCHANGED <<num, gates, measures, shots, tomo, openqasm, circuit, used_qubits,
                 global_valid, stdout, input, raised, algebra, task, plot>>

NextTask == submit_task \/ run \/ submit_task_return

SpecTask == InitTask /\ [][NextTask]_vars

\* ------------------------------------------------- CircuitPlotManager
\* the branch of lines 102-114 a gate name takes, by gate.name.lower();
\* every other name reaches `raise NotImplemented`
ProcOf(name) ==
  IF name = "barrier" THEN "_proc_barrier"
  ELSE IF name \in {"X", "Y", "Z", "H", "RX", "RY", "RZ"} THEN "_proc_su2"
  ELSE IF name = "SWAP" THEN "_proc_swap"
  ELSE IF name = "CX" THEN "_proc_ctrl"
  ELSE "NotImplemented"

\* dorders[_which] = depth + 1, line 115
Advance(dorders, which, depth) ==
  [q \in DOMAIN dorders |-> IF q \in which THEN depth + 1 ELSE dorders[q]]

\* the loop of lines 95-115 from gate i on; depths holds the depth given to
\* each gate so far.  The slice _which is cut at the end of dorders; np.max
\* of an empty slice raises ValueError, `raise NotImplemented` TypeError.
RECURSIVE ProcessGates(_, _, _, _)
ProcessGates(n, gs, i, st) ==
  IF i > Len(gs) THEN st
  ELSE LET gate == gs[i]
           which == {q \in Qubits(n) : /\ SetMin(Range(gate.pos)) <= q
                                        /\ q <= SetMax(Range(gate.pos))}
       IN IF which = {} THEN [st EXCEPT !.raised = "ValueError"]
          ELSE LET depth == SetMax({st.dorders[q] : q \in which})
               IN IF ProcOf(gate.name) = "NotImplemented"
                  THEN [st EXCEPT !.raised = "TypeError"]
                  ELSE ProcessGates(n, gs, i + 1,
                         [st EXCEPT !.depths = Append(@, depth),
                                    !.dorders = Advance(@, which, depth)])

\* CircuitPlotManager(qc), lines 64-119, for qc.num >= 1: the depth of every
\* gate, self.depth and the points _proc_measure is called with (lines
\* 116-119); nothing is made when the loop raises
CircuitPlotManager(qc) ==
  LET st == ProcessGates(qc.num, qc.gates, 1,
              [raised |-> "", depths |-> <<>>, dorders |-> [q \in Qubits(qc.num) |-> 0]])
      depth == SetMax({st.dorders[q] : q \in Qubits(qc.num)}) + 1
  IN IF st.raised # "" THEN [raised |-> st.raised, depths |-> <<>>, depth |-> 0, measured |-> <<>>]
     ELSE [raised |-> "", depths |-> st.depths, depth |-> depth,
           measured |-> [k \in 1..Len(qc.measures) |-> <<depth - 1, qc.measures[k][1]>>]]

\* the gates of the circuits handed to the plot manager
PlotGates(n) ==
  {HGate(p) : p \in Qubits(n)}
  \cup {CXGate(ps) : ps \in DistinctSeqs(Qubits(n), 2, 2)}
  \cup {CZGate(ps) : ps \in AscendingSeqs(Qubits(n), 2, 2)}
  \cup {SwapGate(ps) : ps \in AscendingSeqs(Qubits(n), 2, 2)}
  \cup {Barrier(ps) : ps \in AscendingSeqs(Qubits(n), 1, MaxBarrier)}

InitPlot ==
  /\ num \in 1..MaxQubits
  /\ gates \in SeqsUpTo(PlotGates(num), MaxPlotted)
  /\ measures \in {DefaultMeasures(num), MeasureMap(<<0>>, <<>>)}
  /\ shots = 1000
  /\ tomo = FALSE
  /\ openqasm = <<>>
  /\ circuit = <<>>
  /\ used_qubits = <<>>
  /\ global_valid = TRUE
  /\ stdout = <<>>
  /\ pc = "ready"
  /\ input = [num |-> num, gates |-> gates, measures |-> measures]
  /\ Idle

\* CircuitPlotManager(self) on the circuit
Call_CircuitPlotManager ==
  /\ plot = <<>>
  /\ plot' = CircuitPlotManager(Self)
  /\ raised' = plot'.raised
  /\ UNCHANGED <<circuitvars, pc, input, algebra, task>>

NextPlot == layered_circuit \/ Call_CircuitPlotManager

SpecPlot == InitPlot /\ [][NextPlot]_vars

\* ================================================================ claims
\* ---- reading the layout
Layered == pc = "layered"
GateRefs == [i \in 1..Len(gates) |-> i]
RowQubit(r) == circuit[r][1]
Cells(r) == Tail(circuit[r])
HasRow(q) == \E r \in 1..Len(circuit) : RowQubit(r) = q
RowOf(q) == CHOOSE r \in 1..Len(circuit) : RowQubit(r) = q
CellAt(q, c) == Cells(RowOf(q))[c]
Depth == IF Len(circuit) = 0 THEN 0 ELSE Len(Cells(1))
NonEmptyCells(r) == SelectSeq(Cells(r), LAMBDA cell : cell # None)
Lo(i) == SetMin(Range(gates[i].pos))
Hi(i) == SetMax(Range(gates[i].pos))
ActsOn(i, q) == q \in Range(gates[i].pos)
IsSpanGate(i) == IsTwoQubitGate(gates[i]) \/ IsBarrier(gates[i])
\* the columns of row q that hold the reference i
ColumnsOf(i, q) == {c \in 1..Depth : CellAt(q, c) = i}

\* C1 (as stated): the non-empty cells of the row of q are the gates acting
\* on q, in program order.
C1_RowIsGatesActingOnQubit ==
  Layered => \A r \in 1..Len(circuit) :
    NonEmptyCells(r) = SelectSeq(GateRefs, LAMBDA i : ActsOn(i, RowQubit(r)))

\* C1 (amended): the non-empty cells of the row of q are the gates whose
\* lowest operand is q (single-qubit gates on q, two-qubit gates and barriers
\* whose span starts at q), in program order, each exactly once.
C1_RowIsGatesAnchoredOnQubit ==
  Layered => \A r \in 1..Len(circuit) :
    NonEmptyCells(r) = SelectSeq(GateRefs, LAMBDA i : Lo(i) = RowQubit(r))

C1_Witness ==
  /\ Layered
  /\ \E r \in 1..Len(circuit) :
       /\ Len(NonEmptyCells(r)) >= 2
       /\ \E k \in 1..Len(NonEmptyCells(r)) : IsTwoQubitGate(gates[NonEmptyCells(r)[k]])
  /\ \E i \in 1..Len(gates) : IsTwoQubitGate(gates[i]) /\ HasRow(Hi(i))

\* C2 (as stated): a two-qubit gate appears at the same layer index in the
\* row of its lowest and in the row of its highest qubit.
C2_GateInBothRowsSameLayer ==
  Layered => \A i \in 1..Len(gates) : IsTwoQubitGate(gates[i]) =>
    \E c \in 1..Depth : CellAt(Lo(i), c) = i /\ CellAt(Hi(i), c) = i

\* C2 (amended): a two-qubit gate appears in the row of its lowest qubit
\* only, at one layer index c; the row of its highest qubit holds the empty
\* placeholder at the same index c, its earlier gates left of c and its later
\* gates right of c.
C2_SpanAlignedAtOneLayer ==
  Layered => \A i \in 1..Len(gates) : IsTwoQubitGate(gates[i]) =>
    /\ HasRow(Lo(i)) /\ HasRow(Hi(i))
    /\ ColumnsOf(i, Hi(i)) = {}
    /\ \E c \in 1..Depth :
         /\ ColumnsOf(i, Lo(i)) = {c}
         /\ CellAt(Hi(i), c) = None
         /\ \A d \in 1..Depth : CellAt(Hi(i), d) # None =>
              (d < c <=> CellAt(Hi(i), d) < i) /\ d # c

C2_Witness ==
  /\ Layered
  /\ \E i \in 1..Len(gates) :
       /\ IsTwoQubitGate(gates[i])
       /\ \E c \in 2..Depth : CellAt(Lo(i), c) = i /\ CellAt(Hi(i), c - 1) # None
       /\ \E j \in 1..Len(gates) : j > i /\ Lo(j) = Hi(i)

\* C3 (as stated): a two-qubit gate or barrier sits in the row of its lowest
\* qubit at one column, and every other wire of its span has a row holding
\* the empty placeholder at that column.
C3_SpanColumnInFinalLayout ==
  Layered => \A i \in 1..Len(gates) : IsSpanGate(i) =>
    /\ HasRow(Lo(i))
    /\ \E c \in 1..Depth :
         /\ ColumnsOf(i, Lo(i)) = {c}
         /\ \A w \in (Lo(i) + 1)..Hi(i) : HasRow(w) /\ CellAt(w, c) = None

\* C3 (amended): if the lowest qubit of the span is active, the gate sits in
\* its row at one column c and every other active wire of the span holds the
\* empty placeholder at column c; rows of inactive wires are absent, and a
\* barrier whose lowest qubit is inactive is in no cell of the layout.
C3_SpanColumnOnActiveWires ==
  Layered => \A i \in 1..Len(gates) : IsSpanGate(i) =>
    IF HasRow(Lo(i))
    THEN \E c \in 1..Depth :
           /\ ColumnsOf(i, Lo(i)) = {c}
           /\ \A w \in (Lo(i) + 1)..Hi(i) : HasRow(w) => CellAt(w, c) = None
    ELSE /\ IsBarrier(gates[i])
         /\ \A r \in 1..Len(circuit) : \A c \in 1..Depth : Cells(r)[c] # i

C3_Witness ==
  /\ Layered
  /\ \E i \in 1..Len(gates) :
       /\ IsSpanGate(i) /\ Hi(i) > Lo(i) /\ HasRow(Lo(i)) /\ HasRow(Hi(i))
       /\ \E j \in 1..Len(gates) : j < i /\ Lo(j) \in (Lo(i) + 1)..Hi(i)
       /\ \E j \in 1..Len(gates) : j > i /\ Lo(j) \in Lo(i)..Hi(i)
  /\ \E i \in 1..Len(gates) : IsBarrier(gates[i]) /\ ~HasRow(Lo(i))

\* C4: the circuit H(0), CX(0,1) on two qubits, both measured.
C4_Case ==
  /\ Layered
  /\ num = 2
  /\ gates = <<HGate(0), CXGate(<<0, 1>>)>>
  /\ measures = <<<<0, 0>>, <<1, 1>>>>

\* C4 (as stated): the layout is row 0 = [H, CX], row 1 = [empty, CX].
C4_ExampleLayoutCXInBothRows ==
  C4_Case => circuit = << <<0, 1, 2>>, <<1, None, 2>> >>

\* C4 (amended): the layout is 2 rows by 2 layers with row 0 = [H, CX] and
\* row 1 = [empty, empty]: the CX is stored in the row of qubit 0 only.
C4_ExampleLayout ==
  C4_Case => circuit = << <<0, 1, 2>>, <<1, None, None>> >>

\* C5 (as stated): one row per active qubit in ascending order, prefixed with
\* the qubit index, where a qubit is active iff it is an operand of some gate
\* (single-qubit gate, two-qubit gate or barrier) or a key of measures.
C5_RowsAreOperandsOrMeasured ==
  Layered =>
    [r \in 1..Len(circuit) |-> RowQubit(r)] =
      SortedSeq({q \in Qubits(num) : \E i \in 1..Len(gates) : ActsOn(i, q)}
                \cup KeySet(measures))

\* C5 (amended): a qubit is active iff it is an operand of a single-qubit or
\* two-qubit gate or a key of measures; the operands of a barrier, like the
\* qubits a gate only spans, are not active.
C5_RowsAreGateOperandsOrMeasured ==
  Layered =>
    /\ [r \in 1..Len(circuit) |-> RowQubit(r)] =
         SortedSeq({q \in Qubits(num) :
                      \E i \in 1..Len(gates) : ~IsBarrier(gates[i]) /\ ActsOn(i, q)}
                   \cup KeySet(measures))
    /\ used_qubits = [r \in 1..Len(circuit) |-> RowQubit(r)]

C5_Witness ==
  /\ Layered
  /\ Len(circuit) >= 2
  /\ \E q \in Qubits(num) :
       /\ ~HasRow(q)
       /\ \E i \in 1..Len(gates) : IsBarrier(gates[i]) /\ ActsOn(i, q)
  /\ \E q \in Qubits(num) : HasRow(q) /\ q \notin KeySet(measures)
  /\ \E q \in Qubits(num) :
       ~HasRow(q) /\ \E i \in 1..Len(gates) : IsTwoQubitGate(gates[i]) /\ Lo(i) < q /\ q < Hi(i)

\* C6: every row has as many layer cells as the deepest wire of the register
\* has after scheduling (dropped wires included), and a row is its scheduled
\* cells followed by placeholders only.
C6_RowsPaddedToMaxDepth ==
  Layered =>
    LET gql == Schedule(num, gates).gateQlist
        maxdepth == SetMax({Len(gql[q]) : q \in Qubits(num)})
    IN \A r \in 1..Len(circuit) :
         /\ Len(Cells(r)) = maxdepth
         /\ SubSeq(Cells(r), 1, Len(gql[RowQubit(r)])) = gql[RowQubit(r)]
         /\ \A c \in (Len(gql[RowQubit(r)]) + 1)..maxdepth : Cells(r)[c] = None

C6_Witness ==
  /\ Layered
  /\ Len(circuit) >= 2
  /\ LET gql == Schedule(num, gates).gateQlist
     IN /\ \E q \in Qubits(num) :
             ~HasRow(q) /\ \A r \in 1..Len(circuit) : Len(gql[RowQubit(r)]) < Len(gql[q])
        /\ \E r1, r2 \in 1..Len(circuit) : Len(gql[RowQubit(r1)]) # Len(gql[RowQubit(r2)])

\* ---- reading a text
IntsOf(line) ==
  LET lits == SelectSeq(line, LAMBDA t : t.k = "n") IN [i \in 1..Len(lits) |-> lits[i].n]
ParasOf(line) ==
  LET lits == SelectSeq(line, LAMBDA t : t.k = "f") IN [i \in 1..Len(lits) |-> lits[i].n]
StmtWord(line) == line[1].s
\* the statements after the two header lines and the qreg and creg lines
Stmts == SubSeq(openqasm, 5, Len(openqasm))
QregSize == IntsOf(openqasm[3])[1]
IsMeasureStmt(line) == StmtWord(line) = "measure"
Exported == pc = "exported"
Imported == pc = "imported"
NamesAndPositions(gs) == [i \in 1..Len(gs) |-> <<gs[i].name, gs[i].pos>>]

\* C7: exporting a circuit built by the builder operations and importing the
\* text gives a gate list with the same mnemonics and the same operand
\* positions in the same order.
C7_RoundTripKeepsGates ==
  Imported => NamesAndPositions(gates) = NamesAndPositions(input.gates)

C7_Witness ==
  /\ Imported
  /\ Len(input.gates) >= 2
  /\ \E i \in 1..Len(gates) : Len(gates[i].pos) = 2 /\ gates[i].pos[1] > gates[i].pos[2]
  /\ \E i \in 1..Len(gates) : gates[i].cls \in {"ParaSingleQubitGate", "Barrier"}
  /\ gates[1].name # gates[2].name

\* the qubits measured by the measure statements before statement k
MeasuredBefore(k) ==
  \E j \in 1..(k - 1) :
    IsMeasureStmt(Stmts[j]) /\ IntsOf(Stmts[j])[1] \in Range(IntsOf(Stmts[k]))

RecognizedWords ==
  {"cx", "cy", "cz", "swap", "rx", "ry", "rz", "x", "y", "z", "h", "u1", "u2", "u3", "barrier"}
IsGateStmt(line) == ~IsMeasureStmt(line)
IsRecognized(line) == StmtWord(line) \in RecognizedWords

\* what a recognized statement stands for: its gates in order, the rotations
\* marked
Fixed(name, pos) == [name |-> name, pos |-> pos, paras |-> 0, rot |-> FALSE]
Rotation(name, q, a) == [name |-> name, pos |-> <<q>>, paras |-> a, rot |-> TRUE]
StmtGates(line) ==
  LET w == StmtWord(line)
      qs == IntsOf(line)
      ps == ParasOf(line)
  IN CASE w = "h" -> <<Fixed("H", <<qs[1]>>)>>
       [] w = "x" -> <<Fixed("X", <<qs[1]>>)>>
       [] w = "y" -> <<Fixed("Y", <<qs[1]>>)>>
       [] w = "z" -> <<Fixed("Z", <<qs[1]>>)>>
       [] w = "cx" -> <<Fixed("CX", <<qs[1], qs[2]>>)>>
       [] w = "cy" -> <<Fixed("CY", <<qs[1], qs[2]>>)>>
       [] w = "cz" -> <<Fixed("CZ", <<qs[1], qs[2]>>)>>
       [] w = "swap" -> <<Fixed("SWAP", <<qs[1], qs[2]>>)>>
       [] w = "barrier" -> <<Fixed("barrier", qs)>>
       [] w = "rx" -> <<Rotation("RX", qs[1], ps[1])>>
       [] w = "ry" -> <<Rotation("RY", qs[1], ps[1])>>
       [] w = "rz" -> <<Rotation("RZ", qs[1], ps[1])>>
       [] w = "u1" -> <<Rotation("RZ", qs[1], ps[1])>>
       [] w = "u2" -> <<Rotation("RZ", qs[1], ps[2]), Rotation("RY", qs[1], pi \div 2),
                        Rotation("RZ", qs[1], ps[1])>>
       [] w = "u3" -> <<Rotation("RZ", qs[1], ps[3]), Rotation("RY", qs[1], ps[1]),
                        Rotation("RZ", qs[1], ps[2])>>
       [] OTHER -> <<>>

NonZero(gs) == SelectSeq(gs, LAMBDA g : ~g.rot \/ g.paras # 0)

\* the gates the statements k.. stand for, without the statements that name a
\* measured qubit and without the rotations of angle zero
RECURSIVE KeptGates(_)
KeptGates(k) ==
  IF k > Len(Stmts) THEN <<>>
  ELSE (IF IsGateStmt(Stmts[k]) /\ ~MeasuredBefore(k) THEN NonZero(StmtGates(Stmts[k])) ELSE <<>>)
       \o KeptGates(k + 1)

\* the gate list of the import of the header and the first k statements
GatesAfter(k) == FromOpenqasm(input.num, SubSeq(openqasm, 1, 4 + k)).gates
AddsNoGate(k) == Len(GatesAfter(k)) = Len(GatesAfter(k - 1))
InvalidOps == \E k \in 1..Len(Stmts) : IsGateStmt(Stmts[k]) /\ MeasuredBefore(k)

\* C8 (as stated): a recognized gate or barrier statement adds no gate iff
\* one of its operands was measured by an earlier statement, and the import
\* is marked invalid iff some statement was left out for this reason.
C8_OmittedIffMeasuredBefore ==
  Imported =>
    /\ \A k \in 1..Len(Stmts) :
         IsGateStmt(Stmts[k]) /\ IsRecognized(Stmts[k]) => (AddsNoGate(k) <=> MeasuredBefore(k))
    /\ global_valid = ~InvalidOps

\* C8 (amended): a recognized gate or barrier statement adds no gate iff one
\* of its operands was measured by an earlier statement or all the rotations
\* it stands for have angle zero; the other statements add their gates (the
\* rotations of non-zero angle) in text order; the import is marked invalid
\* iff some gate or barrier statement names a qubit measured earlier.
C8_KeptGatesInTextOrder ==
  Imported =>
    /\ [i \in 1..Len(gates) |-> <<gates[i].name, gates[i].pos, gates[i].paras>>]
         = [i \in 1..Len(KeptGates(1)) |->
              <<KeptGates(1)[i].name, KeptGates(1)[i].pos, KeptGates(1)[i].paras>>]
    /\ \A k \in 1..Len(Stmts) :
         IsGateStmt(Stmts[k]) /\ IsRecognized(Stmts[k]) =>
           (AddsNoGate(k) <=> (MeasuredBefore(k) \/ NonZero(StmtGates(Stmts[k])) = <<>>))
    /\ global_valid = ~InvalidOps
    /\ (\E i \in 1..Len(stdout) : stdout[i][1] = "removed") <=> InvalidOps

C8_Witness ==
  /\ Imported
  /\ ~global_valid
  /\ \E j, k \in 1..Len(Stmts) :
       /\ j < k
       /\ IsMeasureStmt(Stmts[j])
       /\ IsGateStmt(Stmts[k]) /\ IsRecognized(Stmts[k])
       /\ ~MeasuredBefore(k) /\ ~AddsNoGate(k)
  /\ \E k \in 1..Len(Stmts) :
       IsGateStmt(Stmts[k]) /\ IsRecognized(Stmts[k]) /\ MeasuredBefore(k)
         /\ Len(IntsOf(Stmts[k])) = 2

\* C9: the exported text is the two fixed lines, qreg and creg sized to num
\* and len(measures), one statement per gate in program order (lower-cased
\* mnemonic, parameter if parametric, operands in declared order) and one
\* measure statement per entry of measures in map order.
C9_ExportListsEveryGate ==
  Exported =>
    /\ Len(openqasm) = 4 + Len(gates) + Len(measures)
    /\ openqasm[1] = <<W("OPENQASM 2.0;")>>
    /\ openqasm[2] = <<W("include \"qelib1.inc\";")>>
    /\ StmtWord(openqasm[3]) = "qreg" /\ IntsOf(openqasm[3]) = <<num>>
    /\ StmtWord(openqasm[4]) = "creg" /\ IntsOf(openqasm[4]) = <<Len(measures)>>
    /\ \A i \in 1..Len(gates) :
         /\ StmtWord(Stmts[i]) = Lower(gates[i].name)
         /\ IntsOf(Stmts[i]) = gates[i].pos
         /\ ParasOf(Stmts[i]) =
              IF gates[i].cls = "ParaSingleQubitGate" THEN <<gates[i].paras>> ELSE <<>>
    /\ \A j \in 1..Len(measures) :
         /\ IsMeasureStmt(Stmts[Len(gates) + j])
         /\ IntsOf(Stmts[Len(gates) + j]) = <<measures[j][1], measures[j][2]>>

C9_Witness ==
  /\ Exported
  /\ Len(gates) = 2
  /\ \E i \in 1..Len(gates) : gates[i].cls = "ParaSingleQubitGate"
  /\ \E i \in 1..Len(gates) : Len(gates[i].pos) = 2 /\ gates[i].pos[1] > gates[i].pos[2]
  /\ Len(measures) = 2 /\ measures[1][1] > measures[2][1] /\ measures[1][2] # measures[1][1]

MeasureStmts == SelectSeq(Stmts, IsMeasureStmt)
MeasurePairs == {<<IntsOf(MeasureStmts[j])[1], IntsOf(MeasureStmts[j])[2]>> : j \in 1..Len(MeasureStmts)}
MapPairs == {<<measures[j][1], measures[j][2]>> : j \in 1..Len(measures)}
LastMeasureOf(q) ==
  CHOOSE j \in 1..Len(MeasureStmts) :
    /\ IntsOf(MeasureStmts[j])[1] = q
    /\ \A l \in (j + 1)..Len(MeasureStmts) : IntsOf(MeasureStmts[l])[1] # q

\* C10 (as stated): without a measure statement measures is the identity
\* map over the qreg size; otherwise it holds exactly the (qubit, classical
\* bit) pairs of the measure statements.
C10_MeasuresAreStatementPairs ==
  Imported =>
    /\ num = QregSize
    /\ IF MeasureStmts = <<>> THEN measures = DefaultMeasures(QregSize)
       ELSE MapPairs = MeasurePairs

\* C10 (amended): without a measure statement measures is the identity map
\* over the qreg size; otherwise its keys are exactly the measured qubits,
\* each mapped to the classical bit of the last measure statement that names
\* it, and there is no default entry.
C10_MeasuresAreLastStatementPairs ==
  Imported =>
    /\ num = QregSize
    /\ IF MeasureStmts = <<>> THEN measures = DefaultMeasures(QregSize)
       ELSE /\ KeySet(measures) = {p[1] : p \in MeasurePairs}
            /\ Cardinality(KeySet(measures)) = Len(measures)
            /\ \A q \in KeySet(measures) :
                 Lookup(measures, q) = IntsOf(MeasureStmts[LastMeasureOf(q)])[2]

C10_Witness ==
  /\ Imported
  /\ Len(MeasureStmts) >= 2
  /\ Cardinality(MeasurePairs) > Len(measures)
  /\ Len(measures) < num

\* ---- unrecognized mnemonics
\* statement k has a mnemonic the importer does not know and names no qubit
\* measured by an earlier statement
UnknownStmt(k) == IsGateStmt(Stmts[k]) /\ ~IsRecognized(Stmts[k]) /\ ~MeasuredBefore(k)
UnknownStmts == {k \in 1..Len(Stmts) : UnknownStmt(k)}

\* the statements k.. without the unknown ones
RECURSIVE KnownStmts(_)
KnownStmts(k) ==
  IF k > Len(Stmts) THEN <<>>
  ELSE (IF UnknownStmt(k) THEN <<>> ELSE <<Stmts[k]>>) \o KnownStmts(k + 1)

TextWithoutUnknown == SubSeq(openqasm, 1, 4) \o KnownStmts(1)
Diagnostics == SelectSeq(stdout, LAMBDA d : d[1] = "not supported")
OtherOutput == SelectSeq(stdout, LAMBDA d : d[1] # "not supported")

\* C11: a statement with an unrecognized mnemonic on unmeasured qubits adds
\* no gate and prints one diagnostic naming the mnemonic; the import goes on,
\* and its gates, measures, register size and invalid-operations flag are
\* those of the import of the text without the unrecognized statements.
C11_UnknownMnemonicSkipped ==
  Imported =>
    /\ \A k \in UnknownStmts : AddsNoGate(k)
    /\ Diagnostics = [i \in 1..Len(Diagnostics) |-> <<"not supported", Diagnostics[i][2]>>]
    /\ Len(Diagnostics) = Cardinality(UnknownStmts)
    /\ \A i \in 1..Len(Diagnostics) : \E k \in UnknownStmts : StmtWord(Stmts[k]) = Diagnostics[i][2]
    /\ \E res \in {FromOpenqasm(input.num, TextWithoutUnknown)} :
         /\ gates = res.gates
         /\ measures = res.measures
         /\ num = res.num
         /\ global_valid = res.global_valid
         /\ OtherOutput = res.stdout
    /\ (\A k \in 1..Len(Stmts) : IsGateStmt(Stmts[k]) /\ IsRecognized(Stmts[k]) => ~MeasuredBefore(k))
         => (global_valid <=> \A k \in 1..Len(Stmts) : ~(IsGateStmt(Stmts[k]) /\ MeasuredBefore(k)))

C11_Witness ==
  /\ Imported
  /\ global_valid
  /\ \E k \in UnknownStmts :
       /\ \E j \in 1..(k - 1) : ~AddsNoGate(j)
       /\ \E j \in (k + 1)..Len(Stmts) : ~AddsNoGate(j)

\* ---- the u1 statement
\* the gates statement k adds to the gate list
AddedBy(k) == SubSeq(GatesAfter(k), Len(GatesAfter(k - 1)) + 1, Len(GatesAfter(k)))
IsU1Stmt(k) == StmtWord(Stmts[k]) = "u1" /\ Len(ParasOf(Stmts[k])) = 1 /\ ~MeasuredBefore(k)
RotationNames == {"RX", "RY", "RZ"}

\* C12 (as stated): a u1 statement with one parameter adds three rotation
\* gates around two axes, in order.
C12_U1AddsThreeRotations ==
  Imported => \A k \in 1..Len(Stmts) : IsU1Stmt(k) =>
    /\ Len(AddedBy(k)) = 3
    /\ \A i \in 1..3 : AddedBy(k)[i].name \in RotationNames
    /\ Cardinality({AddedBy(k)[i].name : i \in 1..3}) = 2

\* C12 (amended): a u1 statement with one parameter on an unmeasured qubit
\* adds a single rotation gate, RZ with that parameter on the qubit of the
\* statement, after the gates of the earlier statements, and adds no gate when
\* the parameter is zero.
C12_U1AddsOneRZ ==
  Imported =>
    /\ GatesAfter(Len(Stmts)) = gates
    /\ \A k \in 1..Len(Stmts) : IsU1Stmt(k) =>
         /\ SubSeq(GatesAfter(k), 1, Len(GatesAfter(k - 1))) = GatesAfter(k - 1)
         /\ AddedBy(k) = IF ParasOf(Stmts[k])[1] = 0 THEN <<>>
                         ELSE <<RZGate(IntsOf(Stmts[k])[1], ParasOf(Stmts[k])[1])>>

C12_Witness ==
  /\ Imported
  /\ \E k \in 2..Len(Stmts) :
       /\ IsU1Stmt(k) /\ ParasOf(Stmts[k])[1] # 0
       /\ Len(GatesAfter(k - 1)) > 0
       /\ gates[Len(GatesAfter(k))].name = "RZ"
  /\ \E k \in 1..Len(Stmts) : IsU1Stmt(k) /\ ParasOf(Stmts[k])[1] = 0

\* ---- the gate algebra
Constructed == pc = "constructed"
IsSquare(m, side) == m # <<>> /\ m.rows = side /\ m.cols = side

\* C13 (as stated): for c >= 1 controls and t >= 1 targets the construction
\* succeeds, the matrix is square of side 2^(c+t), and before the reordering
\* it is the identity outside the bottom-right 2^t x 2^t block, which holds
\* the target matrix.
C13_ControlledMatrixShape ==
  Constructed =>
    LET side == Pow2(Len(input.ctrls) + Len(input.targs))
        control_dim == side - Pow2(Len(input.targs))
    IN /\ raised = ""
       /\ IsSquare(cgate._matrix, side)
       /\ IsSquare(cgate.embedded, side)
       /\ \A r, c \in 0..(side - 1) :
            cgate.embedded.at[<<r, c>>] =
              IF r >= control_dim /\ c >= control_dim
              THEN input.tar_matrix.at[<<r - control_dim, c - control_dim>>]
              ELSE IF r = c THEN 1 ELSE 0

\* the number of entries of m equal to v, and of diagonal entries equal to v
CountOf(m, v) == Cardinality({rc \in DOMAIN m.at : m.at[rc] = v})
DiagCountOf(m, v) == Cardinality({r \in 0..(m.rows - 1) : m.at[<<r, r>>] = v})
Values(m) == {m.at[rc] : rc \in DOMAIN m.at}

\* C14: reordering by a permutation p and then by its inverse gives the
\* original matrix, entry for entry; one reordering keeps the shape and moves
\* entries without changing them: every value occurs as often as before, in
\* the whole matrix and on the diagonal.
C14_ReorderInvolution ==
  /\ pc = "restored" => raised = "" /\ matrix = input.m
  /\ pc = "reordered" =>
       /\ raised = ""
       /\ IsSquare(matrix, input.m.rows)
       /\ \A v \in Values(input.m) \cup Values(matrix) :
            /\ CountOf(matrix, v) = CountOf(input.m, v)
            /\ DiagCountOf(matrix, v) = DiagCountOf(input.m, v)

C14_Witness ==
  /\ pc = "restored"
  /\ Len(input.pos) = 3
  /\ input.pos # Inverse(input.pos)
  /\ input.m = Generic(3)
  /\ ReorderMatrix(input.m, input.pos).matrix # input.m

\* ---- measure
MeasureCalled == pc = "measure"
\* C15 (as stated): with a non-empty cbits list the call fails with
\* CircuitError iff the length of cbits differs from the length of the qubit
\* list, repeated qubits included.
C15_FailsIffLengthsDiffer ==
  MeasureCalled /\ input.cbits # <<>> =>
    (raised = "CircuitError" <=> Len(input.cbits) # Len(input.pos))

\* C16 (as stated): after a successful call the keys of the map are exactly
\* the qubits of pos, each mapped to cbits[i] (to i without cbits) for a place
\* i of the qubit in pos; no other entry is left, and the call leaves the gate
\* list as it was.
C16_MeasureReplacesMap ==
  [][pc' = "measure" /\ raised' = "" =>
       /\ gates' = gates
       /\ Cardinality(KeySet(measures')) = Len(measures')
       /\ KeySet(measures') = Range(input'.pos)
       /\ LET vs == IF input'.cbits = <<>> THEN RangeList(Len(input'.pos)) ELSE input'.cbits
          IN \A q \in KeySet(measures') :
               \E i \in 1..Len(input'.pos) :
                 i <= Len(vs) /\ input'.pos[i] = q /\ Lookup(measures', q) = vs[i]]_vars

\* ---- the builders
\* the positions ps of one gate are in the register and mutually distinct
ValidPositions(ps, n) ==
  /\ \A i \in 1..Len(ps) : ps[i] \in Qubits(n)
  /\ \A i, j \in 1..Len(ps) : i # j => ps[i] # ps[j]

\* C17 (as stated): a builder call with a position out of the register or
\* repeated within the gate fails and appends nothing, so every gate of the
\* gate list has mutually distinct positions in [0, num).
C17_BuildersValidatePositions ==
  /\ pc \in BuilderNames /\ ~ValidPositions(input.pos, num) => raised # ""
  /\ \A i \in 1..Len(gates) : ValidPositions(gates[i].pos, num)

\* ---- purity of the derived artifacts
\* a circuit holding n, gs and m on which no method was called yet
Fresh(n, gs, m) == [QuantumCircuit(n) EXCEPT !.gates = gs, !.measures = m]

\* C18: a call of layered_circuit or to_openqasm leaves num, gates and
\* measures as they were, and what it returns (self.circuit with
\* self.used_qubits, self.openqasm) is what the same call returns on a fresh
\* circuit holding the same num, gates and measures, whatever was called
\* before; the other artifact is left alone.
C18_DerivedArtifactsArePure ==
  [][/\ pc' = "layered_circuit" =>
          /\ num' = num /\ gates' = gates /\ measures' = measures /\ openqasm' = openqasm
          /\ raised' = LayeredCall(Fresh(num, gates, measures)).raised
          /\ raised' = "" =>
               /\ circuit' = LayeredCall(Fresh(num, gates, measures)).self.circuit
               /\ used_qubits' = LayeredCall(Fresh(num, gates, measures)).self.used_qubits
     /\ pc' = "to_openqasm" =>
          /\ num' = num /\ gates' = gates /\ measures' = measures
          /\ circuit' = circuit /\ used_qubits' = used_qubits
          /\ raised' = ""
          /\ openqasm' = ToOpenqasmCall(Fresh(num, gates, measures)).self.openqasm]_vars

\* a layout that holds the second gate, computed after a text was exported
\* for a shorter gate list and a layout was computed before
C18_Witness ==
  /\ pc = "layered_circuit"
  /\ raised = ""
  /\ Len(gates) = 2
  /\ openqasm # <<>>
  /\ Len(openqasm) = 4 + 1 + Len(measures)
  /\ \E r \in 1..Len(circuit) : \E c \in 2..Len(circuit[r]) : circuit[r][c] = 2

\* ---- greedy placement
\* the wires after the first k gates were processed
WiresAfter(k) == Schedule(num, SubSeq(gates, 1, k)).gateQlist
\* the span of gate i: its single wire, or the wires from its lowest to its
\* highest position
Span(i) == Lo(i)..Hi(i)
\* the 0-based column of gate i on its wire after k gates were processed
ColumnAfter(k, i) ==
  (CHOOSE c \in 1..Len(WiresAfter(k)[Lo(i)]) : WiresAfter(k)[Lo(i)][c] = i) - 1

\* C19: the column of a gate is the largest number of cells any wire of its
\* span holds when the gate is processed; after a two-qubit gate or barrier
\* all wires of its span have the same length, one past its column; gates
\* processed later leave the column as it is, up to the final layout.
C19_GreedyPlacement ==
  Layered => \A i \in 1..Len(gates) :
    /\ \E c \in 1..Len(WiresAfter(i)[Lo(i)]) : WiresAfter(i)[Lo(i)][c] = i
    /\ ColumnAfter(i, i) = SetMax({Len(WiresAfter(i - 1)[w]) : w \in Span(i)})
    /\ IsSpanGate(i) => \A w \in Span(i) : Len(WiresAfter(i)[w]) = ColumnAfter(i, i) + 1
    /\ \A k \in i..Len(gates) : ColumnAfter(k, i) = ColumnAfter(i, i)
    /\ HasRow(Lo(i)) => CellAt(Lo(i), ColumnAfter(i, i) + 1) = i

\* a spanning gate that is moved right of the cells of its own wire, which
\* holds a gate placed before
C19_Witness ==
  /\ Layered
  /\ \E i \in 2..Len(gates) :
       /\ IsSpanGate(i) /\ Hi(i) > Lo(i)
       /\ Len(WiresAfter(i - 1)[Lo(i)]) < ColumnAfter(i, i)
       /\ \E j \in 1..(i - 1) : Lo(j) = Lo(i) /\ ColumnAfter(i, j) = ColumnAfter(j, j)

\* ---- submit_task
\* the rotation gates of one measurement basis: RY(-pi/2) for X, RX(pi/2) for Y
RECURSIVE BasisRotations(_, _)
BasisRotations(base, i) ==
  IF i > Len(base) THEN <<>>
  ELSE (IF base[i][1] = "X" THEN <<RYGate(base[i][2], 0 - 1)>>
        ELSE IF base[i][1] = "Y" THEN <<RXGate(base[i][2], 1)>>
        ELSE <<>>) \o BasisRotations(base, i + 1)

\* C20 (as stated): with a non-empty observable list every run is sent with
\* the gates the circuit had before the call followed by the rotation gates
\* of its own basis only, and when submit_task returns the gate list is the
\* one before the call.
C20_SubmitRestoresGates ==
  input.obslist # <<>> =>
    /\ \A k \in 1..Len(exec_res) :
         exec_res[k].qasm =
           ToOpenqasm(num, input.gates \o BasisRotations(exec_res[k].measure_base, 1), measures)
    /\ pc = "returned" => gates = input.gates

\* ---- layout and plot
Plotted == plot # <<>>

\* C21 (as stated): for gate lists of single-qubit gates, two-qubit gates
\* and barriers the plot manager gives every gate a depth, the depth is the
\* column layered_circuit gives the gate, and the column of the measurement
\* symbols is greater than the depth of every gate.
C21_PlotDepthIsLayerColumn ==
  (Layered /\ Plotted) =>
    /\ plot.raised = ""
    /\ Len(plot.depths) = Len(gates)
    /\ \A i \in 1..Len(gates) :
         /\ plot.depths[i] = ColumnAfter(Len(gates), i)
         /\ HasRow(Lo(i)) => CellAt(Lo(i), plot.depths[i] + 1) = i
         /\ \A k \in 1..Len(plot.measured) : plot.measured[k][1] > plot.depths[i]

\* ---- rotations of angle zero
RotationCalls == {"rx", "ry", "rz"}
IsUStmt(line) == StmtWord(line) \in {"u1", "u2", "u3"}
HasZeroPara(line) == \E i \in 1..Len(ParasOf(line)) : ParasOf(line)[i] = 0
NamePosParas(gs) == [i \in 1..Len(gs) |-> <<gs[i].name, gs[i].pos, gs[i].paras>>]

\* C22: a call of rx, ry or rz with angle zero returns with the gate list and
\* the measurement map as they were; an imported u1, u2 or u3 statement on
\* unmeasured qubits adds the terms of its decomposition that have a non-zero
\* angle, so with a zero parameter it adds fewer rotation gates than its
\* decomposition has terms.
C22_ZeroAngleAddsNothing ==
  /\ (pc \in RotationCalls /\ input.paras = 0) =>
       (gates = input.gates /\ measures = input.measures /\ raised = "")
  /\ Imported =>
       \A k \in 1..Len(Stmts) :
         (IsUStmt(Stmts[k]) /\ ~MeasuredBefore(k)) =>
           /\ NamePosParas(AddedBy(k)) = NamePosParas(NonZero(StmtGates(Stmts[k])))
           /\ \A i \in 1..Len(AddedBy(k)) : AddedBy(k)[i].name \in RotationNames
           /\ HasZeroPara(Stmts[k]) => Len(AddedBy(k)) < Len(StmtGates(Stmts[k]))

\* a zero-angle call on a circuit imported from a u2 statement with zero
\* parameters, of which one rotation is left
C22_Witness ==
  /\ pc \in RotationCalls /\ input.paras = 0
  /\ Len(openqasm) = 5
  /\ IsUStmt(Stmts[1]) /\ HasZeroPara(Stmts[1])
  /\ Len(gates) = 1 /\ gates[1].name = "RY"

\* ---- a failed measure call
\* the last place of qubit q in the list pos, counted from 0
LastIndex(pos, q) == SetMax({i \in 1..Len(pos) : pos[i] = q}) - 1
\* the first place of qubit q in the list pos
FirstPlace(pos, q) == SetMin({i \in 1..Len(pos) : pos[i] = q})

\* C23: when measure has raised CircuitError the measurement map is the
\* mapping pos[i] -> i of the call (one entry per qubit of pos in the order
\* the qubits first appear, the last place of a repeated qubit) and shots and
\* tomo are the arguments of the call.
C23_FailedMeasureHasAssigned ==
  (MeasureCalled /\ raised = "CircuitError") =>
    /\ KeySet(measures) = Range(input.pos)
    /\ Cardinality(KeySet(measures)) = Len(measures)
    /\ \A e \in 1..Len(measures) : measures[e][2] = LastIndex(input.pos, measures[e][1])
    /\ \A e, f \in 1..Len(measures) :
         e < f => FirstPlace(input.pos, measures[e][1]) < FirstPlace(input.pos, measures[f][1])
    /\ shots = input.shots
    /\ tomo = input.tomo

\* a failed call that changed the map, the shot count and the tomography flag
\* of a fresh circuit
C23_Witness ==
  /\ MeasureCalled /\ raised = "CircuitError"
  /\ Len(input.pos) = 1
  /\ measures # DefaultMeasures(num)
  /\ shots = 3000
  /\ tomo = TRUE

====
